---- MODULE Spec2Model ----
(***************************************************************************)
(* NAMASTE / ICD-11 terminology micro-service (src/main.py), the WHO       *)
(* ICD-11 adapter (src/icd11_client.py) and the offline CLI                *)
(* (src/namaste_cli.py).                                                   *)
(*                                                                         *)
(* Text is modelled as a sequence of one-character strings, so that        *)
(* lower(), strip(), substring tests and the fuzzy scorer are computed     *)
(* character by character as the Python code computes them.                *)
(***************************************************************************)
EXTENDS Integers, Sequences, FiniteSets, TLC

(***************************************************************************)
(* Bounds of the model.                                                    *)
(***************************************************************************)
MaxRows == 2
MaxLimit == 3
MaxClock == 2
MaxTerms == 2
MaxIngests == 2
MaxOrderRows == 3

\* "x = e; return F(x)": e is evaluated once, as a Python assignment does,
\* and F is applied to its value.
Let1(e, F(_)) == CHOOSE r \in {F(x) : x \in {e}} : TRUE

(***************************************************************************)
(* Characters and the str methods the code uses.                           *)
(***************************************************************************)
UpperChars == <<"A","B","C","D","E","F","G","H","I","J","K","L","M",
                "N","O","P","Q","R","S","T","U","V","W","X","Y","Z">>
LowerChars == <<"a","b","c","d","e","f","g","h","i","j","k","l","m",
                "n","o","p","q","r","s","t","u","v","w","x","y","z">>
DigitChars == {"0","1","2","3","4","5","6","7","8","9"}
\* The characters str.strip() takes off, of those a string of this module
\* can hold: tab, line feed, vertical tab, form feed, carriage return, the
\* separators 1C to 1F, the space, NEL and the no-break space.
SpaceChars ==
    {" ", "\t", "\n", "", "\f", "\r", "", "", "", "", "", " "}

IsUpper(c) == \E i \in 1..26 : UpperChars[i] = c
IsLowerC(c) == \E i \in 1..26 : LowerChars[i] = c
\* \w of the regular expression in fuzzywuzzy's full_process
IsWordChar(c) == IsUpper(c) \/ IsLowerC(c) \/ c \in DigitChars \/ c = "_"

lower_char(c) ==
    IF IsUpper(c) THEN LowerChars[CHOOSE i \in 1..26 : UpperChars[i] = c] ELSE c

\* str.lower()
lower(s) == [i \in 1..Len(s) |-> lower_char(s[i])]

RECURSIVE lstrip(_)
lstrip(s) == IF s # <<>> /\ Head(s) \in SpaceChars THEN lstrip(Tail(s)) ELSE s

RECURSIVE rstrip(_)
rstrip(s) ==
    IF s # <<>> /\ s[Len(s)] \in SpaceChars
    THEN rstrip(SubSeq(s, 1, Len(s) - 1)) ELSE s

\* str.strip()
strip(s) == rstrip(lstrip(s))

\* q in s: pandas str.contains(q, regex=False)
contains(s, q) ==
    \E i \in 0..(Len(s) - Len(q)) : SubSeq(s, i + 1, i + Len(q)) = q

(***************************************************************************)
(* difflib.SequenceMatcher, as fuzzywuzzy uses it (no junk; the autojunk   *)
(* heuristic only applies to sequences of 200 or more elements).  Indices  *)
(* are 0-based as in Python: a block (i, j, k) says a[i:i+k] == b[j:j+k].  *)
(***************************************************************************)
RECURSIVE match_len(_, _, _, _, _, _)
match_len(a, b, i, j, ahi, bhi) ==
    IF i < ahi /\ j < bhi /\ a[i + 1] = b[j + 1]
    THEN 1 + match_len(a, b, i + 1, j + 1, ahi, bhi)
    ELSE 0

\* The longest matching block in a[alo:ahi], b[blo:bhi]; of those the one that
\* starts earliest in a, and of those the one that starts earliest in b.
find_longest_match(a, b, alo, ahi, blo, bhi) ==
    Let1({c \in {[i |-> p[1], j |-> p[2],
                  k |-> match_len(a, b, p[1], p[2], ahi, bhi)] :
                    p \in (alo..(ahi - 1)) \X (blo..(bhi - 1))} : c.k > 0},
         LAMBDA cands :
            IF cands = {} THEN [i |-> alo, j |-> blo, k |-> 0]
            ELSE CHOOSE c \in cands :
                    \A r \in cands :
                        \/ c.k > r.k
                        \/ /\ c.k = r.k
                           /\ \/ c.i < r.i
                              \/ (c.i = r.i /\ c.j <= r.j))

RECURSIVE matching_blocks(_, _, _, _, _, _)
matching_blocks(a, b, alo, ahi, blo, bhi) ==
    UNION { IF m.k = 0 THEN {}
            ELSE {m}
                 \cup (IF alo < m.i /\ blo < m.j
                       THEN matching_blocks(a, b, alo, m.i, blo, m.j) ELSE {})
                 \cup (IF m.i + m.k < ahi /\ m.j + m.k < bhi
                       THEN matching_blocks(a, b, m.i + m.k, ahi, m.j + m.k, bhi)
                       ELSE {}) :
            m \in {find_longest_match(a, b, alo, ahi, blo, bhi)} }

\* get_matching_blocks(): the blocks plus the closing (len(a), len(b), 0).
get_matching_blocks(a, b) ==
    matching_blocks(a, b, 0, Len(a), 0, Len(b))
        \cup {[i |-> Len(a), j |-> Len(b), k |-> 0]}

\* sum(triple[-1] for triple in blocks)
sum_sizes(blocks) == Cardinality(UNION {{<<m, n>> : n \in 1..m.k} : m \in blocks})

\* utils.intr(100 * r) = int(round(100 * r)) for the float r = 2.0 * matches
\* / total.  Where 200 * matches / total is k + 1/2, r is the double nearest
\* to (2k + 1) / 200 and 100 * r is again a double: it is k + 1/2 and
\* round() takes the even neighbour, except for k = 54, where it is
\* 54.50000000000001, and k = 57, where it is 57.49999999999999.
HalvesAbove == {54}
HalvesBelow == {57}
intr(matches, total) ==
    LET q == (200 * matches) \div total
        r == (200 * matches) % total
    IN  IF 2 * r < total THEN q
        ELSE IF 2 * r > total THEN q + 1
        ELSE IF q \in HalvesAbove THEN q + 1
        ELSE IF q \in HalvesBelow THEN q
        ELSE IF q % 2 = 0 THEN q ELSE q + 1

\* 100 * SequenceMatcher(None, a, b).ratio(), with partial_ratio's shortcut
\* "r > .995 -> 100" (2M/T > 0.995 iff 400M > 199T).
ratio100(a, b) ==
    Let1(sum_sizes(get_matching_blocks(a, b)),
         LAMBDA matches :
            IF Len(a) + Len(b) = 0 THEN 100
            ELSE IF 400 * matches > 199 * (Len(a) + Len(b)) THEN 100
            ELSE intr(matches, Len(a) + Len(b)))

SetMax(S) == CHOOSE x \in S : \A y \in S : y <= x

\* fuzz.partial_ratio(s1, s2)
\* longer[long_start:long_end] for one matching block.
long_substr(shorter, longer, blk) ==
    Let1(IF blk.j - blk.i > 0 THEN blk.j - blk.i ELSE 0,
         LAMBDA long_start :
            SubSeq(longer, long_start + 1,
                   IF long_start + Len(shorter) < Len(longer)
                   THEN long_start + Len(shorter) ELSE Len(longer)))

partial_ratio_ordered(shorter, longer) ==
    SetMax({ratio100(shorter, long_substr(shorter, longer, blk)) :
                blk \in get_matching_blocks(shorter, longer)})

\* The decorators come first: check_for_equivalence gives 100 for equal
\* texts (two empty ones too), then check_empty_string gives 0.
partial_ratio(s1, s2) ==
    IF s1 = s2 THEN 100
    ELSE IF Len(s1) = 0 \/ Len(s2) = 0 THEN 0
    ELSE IF Len(s1) <= Len(s2) THEN partial_ratio_ordered(s1, s2)
    ELSE partial_ratio_ordered(s2, s1)

\* fuzzywuzzy utils.full_process: non-word characters become spaces, then
\* lower() and strip().
full_process(s) ==
    strip(lower([i \in 1..Len(s) |-> IF IsWordChar(s[i]) THEN s[i] ELSE " "]))

(***************************************************************************)
(* Text constants of the model: NAMASTE codes, ICD-11 codes, CSV cells.    *)
(***************************************************************************)
UNKNOWN == <<"U","N","K","N","O","W","N">>
CodeAA == <<"A","A">>
CodeZZ == <<"Z","Z">>
TM2_SP10 == <<"S","P","1","0">>
BIO_FA20 == <<"F","A","2","0">>
TM2_SB00 == <<"S","B","0","0">>
BIO_CA22 == <<"C","A","2","2">>
CodeEA3 == <<"E","A","-","3">>
Absent == <<>>

\* icd_mappings (main.py) and fallback_mappings (namaste_cli.py): the static
\* table, here with the entries the modelled CSV cells can hit.
icd_mappings ==
    (CodeAA :> [tm2 |-> TM2_SP10, biomed |-> BIO_FA20])
    @@ (CodeEA3 :> [tm2 |-> TM2_SB00, biomed |-> BIO_CA22])

\* icd_mappings.get(x, {"tm2": "UNKNOWN"})["tm2"]
map_tm2(x) == IF x \in DOMAIN icd_mappings THEN icd_mappings[x].tm2 ELSE UNKNOWN
\* icd_mappings.get(x, {"biomed": "UNKNOWN"})["biomed"]
map_biomed(x) ==
    IF x \in DOMAIN icd_mappings THEN icd_mappings[x].biomed ELSE UNKNOWN

\* The rows an uploaded CSV file is made of: a row whose Code has a static
\* mapping and a row whose Code has none.  A file may repeat a row.
CsvRow(c, d, s) ==
    [Code |-> c, Disease |-> d, Short_Definition |-> s, icd11_tm2_code |-> Absent]
RowVata == CsvRow(CodeAA, <<"V","a","t","a">>, <<"n","e","r","v","e">>)
RowVati == CsvRow(CodeZZ, <<"V","a","t","i">>, <<"p","i","l","l">>)
RowKinds == {RowVata, RowVati}

RECURSIVE SeqsUpTo(_, _)
SeqsUpTo(S, n) ==
    IF n = 0 THEN {<<>>}
    ELSE LET shorter == SeqsUpTo(S, n - 1)
         IN  shorter \cup {Append(t, x) : t \in shorter, x \in S}

CsvColumns == {"Code", "Disease", "Short_Definition"}

\* What pd.read_csv(file.file) can be given: a file it cannot parse, a file
\* with the three columns and up to MaxRows rows, and the one-row file of
\* RowVata without its Code or without its Short_Definition column.
FullCsvFiles ==
    {[readable |-> TRUE, cols |-> CsvColumns, rows |-> t] :
        t \in SeqsUpTo(RowKinds, MaxRows)}
DropColumn(f, c) ==
    [readable |-> TRUE, cols |-> f.cols \ {c},
     rows |-> [i \in 1..Len(f.rows) |-> [f.rows[i] EXCEPT ![c] = Absent]]]
BrokenCsvFiles ==
    {DropColumn([readable |-> TRUE, cols |-> CsvColumns, rows |-> <<RowVata>>], c) :
        c \in {"Code", "Short_Definition"}}
\* A file that brings its own icd11_tm2_code column and has no Code column.
PremappedCsv ==
    [readable |-> TRUE, cols |-> {"Disease", "Short_Definition", "icd11_tm2_code"},
     rows |-> <<[RowVata EXCEPT !.Code = Absent, !.icd11_tm2_code = TM2_SP10]>>]
UnreadableCsv == [readable |-> FALSE, cols |-> {}, rows |-> <<>>]
CsvFiles == FullCsvFiles \cup BrokenCsvFiles \cup {PremappedCsv, UnreadableCsv}

\* The inputs of the search and translate requests.
Queries ==
    { <<>>, <<" ">>, <<"\f","V","a","t","a"," ">>, <<"v","a","a","t">>, <<"a">>,
      <<"t","a","-","n","e">> }
Limits == (0 - 1)..MaxLimit
Thresholds == {0, 60}
Systems == {"NAMASTE", "TM2", "BIOMEDICINE"}
RequestCodes == {CodeAA, CodeZZ, TM2_SP10, BIO_FA20, UNKNOWN}
\* The timestamps datetime.now().strftime(...) can give.
Timestamps == 1..MaxClock

(***************************************************************************)
(* The DataFrame df_namaste: its columns and its rows.  A row carries a    *)
(* field for every column the code knows; the field of a column the frame  *)
(* does not have is Absent and reading it is a KeyError.                   *)
(***************************************************************************)
EmptyFrame == [cols |-> {}, rows |-> <<>>]

\* DataFrame.empty
is_empty(df) == df.cols = {} \/ df.rows = <<>>

FrameRow(r) ==
    [Code |-> r.Code, Disease |-> r.Disease,
     Short_Definition |-> r.Short_Definition,
     icd11_tm2_code |-> r.icd11_tm2_code, icd11_biomed_code |-> Absent,
     searchable_text |-> Absent]

\* df_namaste = pd.read_csv(file.file)
read_csv(f) ==
    [cols |-> f.cols, rows |-> [i \in 1..Len(f.rows) |-> FrameRow(f.rows[i])]]

\* df['icd11_tm2_code'] = df['Code'].map(...); df['icd11_biomed_code'] = ...
add_icd_columns(df) ==
    [cols |-> df.cols \cup {"icd11_tm2_code", "icd11_biomed_code"},
     rows |-> [i \in 1..Len(df.rows) |->
                 [df.rows[i] EXCEPT !.icd11_tm2_code = map_tm2(df.rows[i].Code),
                                    !.icd11_biomed_code = map_biomed(df.rows[i].Code)]]]

\* df_namaste['icd11_tm2_code'] = df_namaste['Code'].map(...), on its own.
add_tm2_column(df) ==
    [cols |-> df.cols \cup {"icd11_tm2_code"},
     rows |-> [i \in 1..Len(df.rows) |->
                 [df.rows[i] EXCEPT !.icd11_tm2_code = map_tm2(df.rows[i].Code)]]]

\* df_namaste['icd11_biomed_code'] = df_namaste['Code'].map(...), on its own.
add_biomed_column(df) ==
    [cols |-> df.cols \cup {"icd11_biomed_code"},
     rows |-> [i \in 1..Len(df.rows) |->
                 [df.rows[i] EXCEPT !.icd11_biomed_code = map_biomed(df.rows[i].Code)]]]

Undefined == [defined |-> FALSE]

\* update_fhir_resources(version): the two resources, or a KeyError raised
\* while the CodeSystem is being built (nothing is assigned then).
codesystem_of(df, version) ==
    [defined |-> TRUE, version |-> version,
     concept |-> [i \in 1..Len(df.rows) |->
                    [code |-> df.rows[i].Code, display |-> df.rows[i].Disease,
                     definition |-> df.rows[i].Short_Definition]]]
conceptmap_of(df, version) ==
    [defined |-> TRUE, version |-> version,
     element |-> [i \in 1..Len(df.rows) |->
                    [code |-> df.rows[i].Code,
                     target |-> << [code |-> df.rows[i].icd11_tm2_code,
                                    equivalence |-> "equivalent", comment |-> "TM2"],
                                   [code |-> df.rows[i].icd11_biomed_code,
                                    equivalence |-> "equivalent",
                                    comment |-> "Biomedicine"] >>]]]
update_fhir_raises(df) ==
    df.rows # <<>> /\ ~({"Code", "Disease", "Short_Definition"} \subseteq df.cols)

(***************************************************************************)
(* Search: get_exact_matches, get_fuzzy_matches, fuzzy_search_terms.       *)
(***************************************************************************)
SearchColumns == {"Disease", "Short_Definition", "Code"}
MappingColumns == {"icd11_tm2_code", "icd11_biomed_code"}

\* (Disease + ' ' + Short_Definition + ' ' + Code).str.lower()
searchable_text_of(r) ==
    lower(r.Disease \o <<" ">> \o r.Short_Definition \o <<" ">> \o r.Code)

\* A column assignment that also turns the rows of the table around.
with_searchable_text_reversed(df) ==
    [cols |-> df.cols \cup {"searchable_text"},
     rows |-> [i \in 1..Len(df.rows) |->
                 [df.rows[Len(df.rows) + 1 - i] EXCEPT
                     !.searchable_text =
                         searchable_text_of(df.rows[Len(df.rows) + 1 - i])]]]

\* df_namaste['searchable_text'] = ...
with_searchable_text(df) ==
    [cols |-> df.cols \cup {"searchable_text"},
     rows |-> [i \in 1..Len(df.rows) |->
                 [df.rows[i] EXCEPT !.searchable_text = searchable_text_of(df.rows[i])]]]

ResultEntry(r, score, type) ==
    [namaste_code |-> r.Code, display_name |-> r.Disease,
     definition |-> r.Short_Definition, tm2_mapping |-> r.icd11_tm2_code,
     biomedicine_mapping |-> r.icd11_biomed_code,
     confidence_score |-> score, match_type |-> type]

\* A mask that does not look at the display name.
exact_mask_without_disease(r, query) ==
    \/ contains(lower(r.Short_Definition), query)
    \/ contains(lower(r.Code), query)

\* The boolean mask of get_exact_matches for one row.
exact_mask(r, query) ==
    \/ contains(lower(r.Disease), query)
    \/ contains(lower(r.Short_Definition), query)
    \/ contains(lower(r.Code), query)

RECURSIVE SelectRows(_, _)
SelectRows(rows, keep) ==
    IF rows = <<>> THEN <<>>
    ELSE (IF keep[1] THEN <<Head(rows)>> ELSE <<>>)
         \o SelectRows(Tail(rows), Tail(keep))

get_exact_matches(df, query) ==
    Let1(SelectRows(df.rows,
                    [i \in 1..Len(df.rows) |-> exact_mask(df.rows[i], query)]),
         LAMBDA matches :
            [i \in 1..Len(matches) |-> ResultEntry(matches[i], 100, "exact")])

\* Series.unique(): the distinct values in order of first appearance.
RECURSIVE unique(_)
unique(xs) ==
    IF xs = <<>> THEN <<>>
    ELSE Let1(unique(SubSeq(xs, 1, Len(xs) - 1)),
              LAMBDA init :
                 IF \E i \in 1..Len(init) : init[i] = xs[Len(xs)]
                 THEN init ELSE Append(init, xs[Len(xs)]))

\* The scorer as process.extract applies it: the default processor
\* (full_process) runs on the query and on every choice.
extract_score(query, choice) ==
    partial_ratio(full_process(query), full_process(choice))

\* The scores of the queries and texts of this model, computed once.
KnownQueries == {strip(lower(q)) : q \in Queries}
KnownTexts == {searchable_text_of(FrameRow(r)) : r \in RowKinds}
ScoreMemo ==
    [p \in KnownQueries \X KnownTexts |-> extract_score(p[1], p[2])] @@ <<>>
scorer(query, choice) ==
    IF <<query, choice>> \in DOMAIN ScoreMemo
    THEN ScoreMemo[<<query, choice>>] ELSE extract_score(query, choice)

\* heapq.nlargest(n, items, key=score): the n best by score, best first,
\* equal scores in their order of arrival.
RECURSIVE nlargest(_, _)
nlargest(n, items) ==
    IF n <= 0 \/ items = <<>> THEN <<>>
    ELSE Let1(CHOOSE i \in 1..Len(items) :
                 /\ \A j \in 1..Len(items) : items[j].score <= items[i].score
                 /\ \A j \in 1..(i - 1) : items[j].score < items[i].score,
              LAMBDA best :
                 <<items[best]>>
                 \o nlargest(n - 1, SubSeq(items, 1, best - 1)
                                      \o SubSeq(items, best + 1, Len(items))))

\* process.extract(query, choices, limit=limit, scorer=fuzz.partial_ratio)
extract(query, choices, limit) ==
    nlargest(limit, [i \in 1..Len(choices) |->
                       [choice |-> choices[i], score |-> scorer(query, choices[i])]])

RECURSIVE FlattenSeq(_)
FlattenSeq(ss) == IF ss = <<>> THEN <<>> ELSE Head(ss) \o FlattenSeq(Tail(ss))

\* The entries of one (match, score) pair of the extraction.
fuzzy_rows(df, m, threshold) ==
    IF m.score >= threshold
    THEN Let1(SelectRows(df.rows,
                 [i \in 1..Len(df.rows) |-> df.rows[i].searchable_text = m.choice]),
              LAMBDA matched_rows :
                 [i \in 1..Len(matched_rows) |->
                     ResultEntry(matched_rows[i], m.score, "fuzzy")])
    ELSE <<>>

get_fuzzy_matches(df, query, limit, threshold) ==
    Let1(extract(query,
                 unique([i \in 1..Len(df.rows) |-> df.rows[i].searchable_text]),
                 limit),
         LAMBDA fuzzy_matches :
            FlattenSeq([k \in 1..Len(fuzzy_matches) |->
                          fuzzy_rows(df, fuzzy_matches[k], threshold)]))

\* A merge that keeps every entry.
keep_every_entry(results) == results

\* "Combine and remove duplicates": the first entry of each namaste_code.
RECURSIVE dedupe_by_code(_)
dedupe_by_code(results) ==
    IF results = <<>> THEN <<>>
    ELSE Let1(dedupe_by_code(SubSeq(results, 1, Len(results) - 1)),
              LAMBDA init :
                 IF \E i \in 1..Len(init) :
                        init[i].namaste_code = results[Len(results)].namaste_code
                 THEN init ELSE Append(init, results[Len(results)]))

\* xs[:n] of Python, for any integer n.
py_prefix(xs, n) ==
    IF n >= 0 THEN SubSeq(xs, 1, IF n < Len(xs) THEN n ELSE Len(xs))
    ELSE SubSeq(xs, 1, IF Len(xs) + n > 0 THEN Len(xs) + n ELSE 0)

Returned(results, df) == [status |-> "ok", results |-> results, df |-> df]
Raised(error, df) == [status |-> error, results |-> <<>>, df |-> df]

\* fuzzy_search_terms(query, limit, threshold) on the frame df: what it returns
\* or raises, and the frame it leaves in df_namaste.
\* The part of fuzzy_search_terms after the exact phase: the early return,
\* or the fuzzy phase with the merge.  df2 has the searchable_text column.
search_after_exact(df2, query_lower, limit, threshold, exact_results) ==
    IF exact_results # <<>> /\ ~(MappingColumns \subseteq df2.cols)
    THEN Raised("KeyError", df2)
    ELSE IF Len(exact_results) >= limit
    THEN Returned(py_prefix(exact_results, limit), df2)
    ELSE Let1(get_fuzzy_matches(df2, query_lower, limit - Len(exact_results), threshold),
              LAMBDA fuzzy_results :
                 IF fuzzy_results # <<>> /\ ~(MappingColumns \subseteq df2.cols)
                 THEN Raised("KeyError", df2)
                 ELSE Returned(py_prefix(dedupe_by_code(exact_results \o fuzzy_results),
                                         limit), df2))

fuzzy_search_terms(df, query, limit, threshold) ==
    IF is_empty(df) THEN Returned(<<>>, df)
    ELSE IF ~(SearchColumns \subseteq df.cols) THEN Raised("KeyError", df)
    ELSE Let1(strip(lower(query)),
              LAMBDA query_lower :
                 Let1(with_searchable_text(df),
                      LAMBDA df2 :
                         search_after_exact(df2, query_lower, limit, threshold,
                                            get_exact_matches(df2, query_lower))))

\* The searches of this model's frames and requests, computed once: the
\* frames a successful ingest leaves, before and after a search has added the
\* searchable_text column.
IngestedFrames == {add_icd_columns(read_csv(f)) : f \in FullCsvFiles}
KnownFrames == IngestedFrames \cup {with_searchable_text(df) : df \in IngestedFrames}
SearchRequests == Queries \X Limits \X Thresholds
SearchMemo ==
    [df \in KnownFrames |->
        [a \in SearchRequests |-> fuzzy_search_terms(df, a[1], a[2], a[3])] @@ <<>>]
    @@ <<>>
search_outcome(df, query, limit, threshold) ==
    IF df \in DOMAIN SearchMemo /\ <<query, limit, threshold>> \in SearchRequests
    THEN SearchMemo[df][<<query, limit, threshold>>]
    ELSE fuzzy_search_terms(df, query, limit, threshold)

(***************************************************************************)
(* Translation: _get_translation_matches and translate_code.               *)
(***************************************************************************)
\* A filter that lets every row pass.
unfiltered_rows(result_df, target_column) == result_df

\* The rows of result_df that pass "notna and != 'UNKNOWN'".
mapped_rows(result_df, target_column) ==
    SelectRows(result_df,
               [i \in 1..Len(result_df) |-> result_df[i][target_column] # UNKNOWN])

\* A lookup that stops at the first row it keeps.
get_translation_matches_first_only(df, source_code, source_column, target_column) ==
    Let1(mapped_rows(SelectRows(df.rows,
                        [i \in 1..Len(df.rows) |->
                            df.rows[i][source_column] = source_code]),
                     target_column),
         LAMBDA kept :
            [i \in 1..(IF kept = <<>> THEN 0 ELSE 1) |->
                [equivalence |-> "equivalent",
                 concept |-> [code |-> kept[i][target_column],
                              display |-> kept[i].Disease]]])

get_translation_matches(df, source_code, source_column, target_column) ==
    Let1(mapped_rows(SelectRows(df.rows,
                        [i \in 1..Len(df.rows) |->
                            df.rows[i][source_column] = source_code]),
                     target_column),
         LAMBDA kept :
            [i \in 1..Len(kept) |->
                [equivalence |-> "equivalent",
                 concept |-> [code |-> kept[i][target_column],
                              display |-> kept[i].Disease]]])

\* A resolver that takes every other pair for a TM2 -> BIOMEDICINE lookup.
translation_columns_any_pair(source_system, target_system) ==
    IF source_system = "NAMASTE" /\ target_system = "TM2"
    THEN <<"Code", "icd11_tm2_code">>
    ELSE IF source_system = "TM2" /\ target_system = "NAMASTE"
    THEN <<"icd11_tm2_code", "Code">>
    ELSE <<"icd11_tm2_code", "icd11_biomed_code">>

\* A resolver that also serves NAMASTE <-> BIOMEDICINE.
translation_columns_with_biomedicine(source_system, target_system) ==
    IF source_system = "NAMASTE" /\ target_system = "TM2"
    THEN <<"Code", "icd11_tm2_code">>
    ELSE IF source_system = "TM2" /\ target_system = "NAMASTE"
    THEN <<"icd11_tm2_code", "Code">>
    ELSE IF source_system = "NAMASTE" /\ target_system = "BIOMEDICINE"
    THEN <<"Code", "icd11_biomed_code">>
    ELSE IF source_system = "BIOMEDICINE" /\ target_system = "NAMASTE"
    THEN <<"icd11_biomed_code", "Code">>
    ELSE <<>>

\* A resolver whose TM2 -> NAMASTE direction searches the Biomedicine column.
translation_columns_back_by_biomedicine(source_system, target_system) ==
    IF source_system = "NAMASTE" /\ target_system = "TM2"
    THEN <<"Code", "icd11_tm2_code">>
    ELSE IF source_system = "TM2" /\ target_system = "NAMASTE"
    THEN <<"icd11_biomed_code", "Code">>
    ELSE <<>>

\* The columns a supported direction reads.
translation_columns(source_system, target_system) ==
    IF source_system = "NAMASTE" /\ target_system = "TM2"
    THEN <<"Code", "icd11_tm2_code">>
    ELSE IF source_system = "TM2" /\ target_system = "NAMASTE"
    THEN <<"icd11_tm2_code", "Code">>
    ELSE <<>>

Response(status, match) == [status |-> status, match |-> match]

\* _get_translation_matches raises KeyError: df[source_column] on a frame
\* without the source column, or row[target_column] on the first selected row
\* of a frame without the target column (no row selected, nothing read).
translation_raises(df, source_code, source_column, target_column) ==
    \/ source_column \notin df.cols
    \/ /\ target_column \notin df.cols
       /\ \E i \in 1..Len(df.rows) : df.rows[i][source_column] = source_code

\* translate_code(request): "not_ready" is the HTTP 503, "unsupported" and
\* "not_found" are the two result=False responses, "ok" carries the matches.
translate_code(df, code, source_system, target_system) ==
    IF is_empty(df) THEN Response("not_ready", <<>>)
    ELSE Let1(translation_columns(source_system, target_system),
              LAMBDA columns :
                 IF columns = <<>> THEN Response("unsupported", <<>>)
                 ELSE IF translation_raises(df, code, columns[1], columns[2])
                 THEN Response("KeyError", <<>>)
                 ELSE Let1(get_translation_matches(df, code, columns[1], columns[2]),
                           LAMBDA matches :
                              IF matches = <<>> THEN Response("not_found", <<>>)
                              ELSE Response("ok", matches)))

(***************************************************************************)
(* The WHO ICD-11 adapter (icd11_client.py).  Times are seconds.  A        *)
(* raised exception is a value: "none" when the call returned.             *)
(***************************************************************************)
NoToken == <<>>
NoTime == 0 - 1
TokenT == <<"t","o","k">>
RefreshMargin == 60
DefaultExpiresIn == 3600
CacheDurationHours == 24
cache_duration == CacheDurationHours * 3600

\* What the token endpoint can answer to one POST: no answer, an error
\* status, or a JSON body with or without access_token.
TokenResponses ==
    { [kind |-> "network_error", access_token |-> NoToken, expires_in |-> 0],
      [kind |-> "rejected", access_token |-> NoToken, expires_in |-> 0],
      [kind |-> "granted", access_token |-> TokenT, expires_in |-> DefaultExpiresIn],
      [kind |-> "granted", access_token |-> TokenT, expires_in |-> RefreshMargin],
      [kind |-> "granted", access_token |-> NoToken, expires_in |-> DefaultExpiresIn] }

\* The ICD11APIClient fields that change: the token and its expiry.
NewClient == [access_token |-> NoToken, token_expires_at |-> NoTime]

\* An authenticate() that lets the failure of its token request escape.
authenticate_raising(client, clock, granted_at, token_response) ==
    IF /\ client.access_token # NoToken
       /\ client.token_expires_at # NoTime
       /\ clock < client.token_expires_at
    THEN [raised |-> "none", ok |-> TRUE, client |-> client, requested |-> FALSE]
    ELSE IF token_response.kind = "granted"
    THEN [raised |-> "none", ok |-> TRUE, requested |-> TRUE,
          client |-> [access_token |-> token_response.access_token,
                      token_expires_at |->
                          granted_at + token_response.expires_in - RefreshMargin]]
    ELSE [raised |-> "RequestException", ok |-> FALSE, client |-> client,
          requested |-> TRUE]

\* An authenticate() that keeps its token until the stated expiry.
authenticate_without_margin(client, clock, granted_at, token_response) ==
    IF /\ client.access_token # NoToken
       /\ client.token_expires_at # NoTime
       /\ clock < client.token_expires_at
    THEN [raised |-> "none", ok |-> TRUE, client |-> client, requested |-> FALSE]
    ELSE IF token_response.kind = "granted"
    THEN [raised |-> "none", ok |-> TRUE, requested |-> TRUE,
          client |-> [access_token |-> token_response.access_token,
                      token_expires_at |-> granted_at + token_response.expires_in]]
    ELSE [raised |-> "none", ok |-> FALSE, client |-> client, requested |-> TRUE]

\* authenticate(): ok is its return value, requested tells whether the POST
\* to the token endpoint was sent.  clock is datetime.now() of line 91,
\* granted_at is datetime.now() of line 114, read after the answer came.
authenticate(client, clock, granted_at, token_response) ==
    IF /\ client.access_token # NoToken
       /\ client.token_expires_at # NoTime
       /\ clock < client.token_expires_at
    THEN [raised |-> "none", ok |-> TRUE, client |-> client, requested |-> FALSE]
    ELSE IF token_response.kind = "granted"
    THEN [raised |-> "none", ok |-> TRUE, requested |-> TRUE,
          client |-> [access_token |-> token_response.access_token,
                      token_expires_at |->
                          granted_at + token_response.expires_in - RefreshMargin]]
    ELSE [raised |-> "none", ok |-> FALSE, client |-> client, requested |-> TRUE]

\* An ICD-11 entity of a search answer: its id (a URI, <<>> when absent) and
\* its title (<<>> when absent).
Entity(id, title) == [id |-> id, title |-> title]
EntTm2 == Entity(<<"x","0","2","/","S","P","1","0">>, <<"V">>)
EntTm2Renamed == Entity(<<"X","0","2","/","S","P","1","0">>, <<"W">>)
EntBiomed == Entity(<<"m","/","F","A","2","0">>, <<"N">>)
EntUntitled == Entity(<<"m","/","C","A","2","2">>, <<>>)

\* A JSON object of the API: its keys and its destinationEntities.
Json(keys, entities) == [keys |-> keys, destinationEntities |-> entities]
NoneValue == [keys |-> {"None"}, destinationEntities |-> <<>>]
IsNone(v) == v.keys = {"None"}
\* bool(v) of None or a dict
truthy(v) == ~IsNone(v) /\ v.keys # {}

\* What the search endpoint can answer to one GET.
ApiResponses ==
    { [kind |-> "network_error", body |-> NoneValue],
      [kind |-> "error_status", body |-> NoneValue],
      [kind |-> "json", body |-> Json({}, <<>>)],
      [kind |-> "json", body |-> Json({"destinationEntities"}, <<>>)],
      [kind |-> "json",
       body |-> Json({"destinationEntities"}, <<EntUntitled, EntBiomed, EntTm2>>)],
      [kind |-> "json",
       body |-> Json({"destinationEntities"}, <<EntTm2, EntTm2Renamed, EntBiomed>>)] }

\* _make_api_request(endpoint, params): result is the JSON body or None.
make_api_request(client, clock, granted_at, token_response, api_response) ==
    Let1(authenticate(client, clock, granted_at, token_response),
         LAMBDA auth :
            IF auth.raised # "none"
            THEN [raised |-> auth.raised, result |-> NoneValue, client |-> auth.client,
                  token_requested |-> auth.requested, token_ok |-> FALSE,
                  api_requested |-> FALSE]
            ELSE IF ~auth.ok
            THEN [raised |-> "none", result |-> NoneValue, client |-> auth.client,
                  token_requested |-> auth.requested, token_ok |-> FALSE,
                  api_requested |-> FALSE]
            ELSE [raised |-> "none",
                  result |-> IF api_response.kind = "json"
                             THEN api_response.body ELSE NoneValue,
                  client |-> auth.client,
                  token_requested |-> auth.requested, token_ok |-> auth.requested,
                  api_requested |-> TRUE])

\* The cache files: absent, not JSON, JSON that is not an object (a list),
\* an object whose cached_at is missing or is a string that is no ISO
\* timestamp, an object whose cached_at is not a string (a number, null), an
\* object with a timestamp and no data, or an object with cached_at and data.
MissingFile == [form |-> "missing", cached_at |-> 0, data |-> <<>>]
NotJsonFile == [form |-> "not_json", cached_at |-> 0, data |-> <<>>]
NotObjectFile == [form |-> "not_object", cached_at |-> 0, data |-> <<>>]
BadTimestampFile == [form |-> "bad_timestamp", cached_at |-> 0, data |-> <<>>]
NonStringTimestampFile == [form |-> "non_string_timestamp", cached_at |-> 0, data |-> <<>>]
NoDataFile(cached_at) == [form |-> "no_data", cached_at |-> cached_at, data |-> <<>>]
CacheEntry(cached_at, data) == [form |-> "entry", cached_at |-> cached_at, data |-> data]

\* _is_cache_valid(cache_path): json.load raises JSONDecodeError and
\* fromisoformat of a string raises ValueError, both caught; .get on a list
\* raises AttributeError and fromisoformat of a non-string raises TypeError,
\* which the except clause does not name.
is_cache_valid(file, clock) ==
    IF file.form = "missing" THEN [raised |-> "none", valid |-> FALSE]
    ELSE IF file.form = "not_json" THEN [raised |-> "none", valid |-> FALSE]
    ELSE IF file.form = "not_object" THEN [raised |-> "AttributeError", valid |-> FALSE]
    ELSE IF file.form = "bad_timestamp" THEN [raised |-> "none", valid |-> FALSE]
    ELSE IF file.form = "non_string_timestamp"
    THEN [raised |-> "TypeError", valid |-> FALSE]
    ELSE [raised |-> "none", valid |-> clock < file.cached_at + cache_duration]

\* _load_from_cache(cache_key): hit tells a value other than None came back.
load_from_cache(file, clock) ==
    Let1(is_cache_valid(file, clock),
         LAMBDA check :
            IF check.raised # "none"
            THEN [raised |-> check.raised, hit |-> FALSE, data |-> <<>>]
            ELSE IF ~check.valid THEN [raised |-> "none", hit |-> FALSE, data |-> <<>>]
            ELSE IF file.form = "no_data"
            THEN [raised |-> "none", hit |-> FALSE, data |-> <<>>]
            ELSE [raised |-> "none", hit |-> TRUE, data |-> file.data])

\* search_codes(search_term): file is the cache file of the term's key.
SearchReturn(raised, results, client, file, req) ==
    [raised |-> raised, results |-> results, client |-> client, file |-> file,
     token_requested |-> req.token_requested, token_ok |-> req.token_ok,
     api_requested |-> req.api_requested]
NoRequest == [token_requested |-> FALSE, token_ok |-> FALSE, api_requested |-> FALSE]

\* A search_codes that also caches the empty answer of a failed request.
search_after_cache_saving_failures(client, file, saved_at, req) ==
    IF req.raised # "none" THEN SearchReturn(req.raised, <<>>, req.client, file, req)
    ELSE Let1(IF truthy(req.result) /\ "destinationEntities" \in req.result.keys
              THEN req.result.destinationEntities ELSE <<>>,
              LAMBDA destinations :
                 SearchReturn("none", destinations, req.client,
                              CacheEntry(saved_at, destinations), req))

search_after_cache(client, file, saved_at, req) ==
    IF req.raised # "none" THEN SearchReturn(req.raised, <<>>, req.client, file, req)
    ELSE IF truthy(req.result)
    THEN Let1(IF "destinationEntities" \in req.result.keys
              THEN req.result.destinationEntities ELSE <<>>,
              LAMBDA destinations :
                 SearchReturn("none", destinations, req.client,
                              CacheEntry(saved_at, destinations), req))
    ELSE SearchReturn("none", <<>>, req.client, file, req)

\* clock is datetime.now() of the cache check and of authenticate's line 91,
\* granted_at that of line 114, saved_at that of _save_to_cache.
search_codes(client, file, clock, granted_at, saved_at, token_response, api_response) ==
    Let1(load_from_cache(file, clock),
         LAMBDA cached :
            IF cached.raised # "none"
            THEN SearchReturn(cached.raised, <<>>, client, file, NoRequest)
            ELSE IF cached.hit /\ cached.data # <<>>
            THEN SearchReturn("none", cached.data, client, file, NoRequest)
            ELSE search_after_cache(client, file, saved_at,
                    make_api_request(client, clock, granted_at, token_response,
                                     api_response)))

\* fetch_tm2_codes() and fetch_biomedicine_codes(): the cached body if the
\* file of the key holds one, otherwise the body the endpoint answers when
\* it is truthy, saved and returned; None otherwise, for the answer {} too.
fetch_codes(client, file, clock, granted_at, saved_at, token_response, api_response) ==
    Let1(load_from_cache(file, clock),
         LAMBDA cached :
            IF cached.raised # "none"
            THEN [raised |-> cached.raised, result |-> NoneValue, client |-> client,
                  file |-> file, token_requested |-> FALSE, token_ok |-> FALSE,
                  api_requested |-> FALSE]
            ELSE IF cached.hit /\ truthy(cached.data)
            THEN [raised |-> "none", result |-> cached.data, client |-> client,
                  file |-> file, token_requested |-> FALSE, token_ok |-> FALSE,
                  api_requested |-> FALSE]
            ELSE Let1(make_api_request(client, clock, granted_at, token_response,
                                       api_response),
                      LAMBDA req :
                         [raised |-> req.raised,
                          result |-> IF req.raised = "none" /\ truthy(req.result)
                                     THEN req.result ELSE NoneValue,
                          client |-> req.client,
                          file |-> IF req.raised = "none" /\ truthy(req.result)
                                   THEN CacheEntry(saved_at, req.result) ELSE file,
                          token_requested |-> req.token_requested,
                          token_ok |-> req.token_ok,
                          api_requested |-> req.api_requested]))

\* The curated search terms of get_enhanced_namaste_mappings, for the codes of
\* the static table that this model carries, the first MaxTerms of each.
CuratedCodes == <<CodeAA, CodeEA3>>
CuratedNames == (CodeAA :> "Vatavyadhi") @@ (CodeEA3 :> "Kasa")
search_terms ==
    (CodeAA :> <<"neurological disorder", "vata", "nervous system">>)
    @@ (CodeEA3 :> <<"cough", "respiratory", "bronchial">>)
TermsOf(code) ==
    SubSeq(search_terms[code], 1,
           IF MaxTerms < Len(search_terms[code]) THEN MaxTerms
           ELSE Len(search_terms[code]))
AllTerms == UNION {{TermsOf(c)[k] : k \in 1..Len(TermsOf(c))} : c \in DOMAIN search_terms}

\* result.get('id', '').split('/')[-1]
RECURSIVE last_segment(_)
last_segment(id) ==
    IF id = <<>> THEN <<>>
    ELSE IF id[Len(id)] = "/" THEN <<>>
    ELSE Append(last_segment(SubSeq(id, 1, Len(id) - 1)), id[Len(id)])

X02 == <<"x","0","2">>

\* The body of "for result in search_results[:2]": the two result lists
\* after the results of one search have been looked at.
RECURSIVE collect_results(_, _)
collect_results(results, lists) ==
    IF results = <<>> THEN lists
    ELSE Let1([code |-> last_segment(Head(results).id), display |-> Head(results).title],
              LAMBDA found :
                 collect_results(Tail(results),
                    IF found.code = <<>> \/ found.display = <<>> THEN lists
                    ELSE IF contains(lower(Head(results).id), X02)
                    THEN [lists EXCEPT !.tm2 = Append(@, found)]
                    ELSE [lists EXCEPT !.biomed = Append(@, found)]))

\* list({r['code']: r for r in results}.values()): a code keeps the place of
\* its first result and the value of its last one.
RECURSIVE dict_values_by_code(_)
dict_values_by_code(results) ==
    IF results = <<>> THEN <<>>
    ELSE Let1(dict_values_by_code(SubSeq(results, 1, Len(results) - 1)),
              LAMBDA d :
                 IF \E i \in 1..Len(d) : d[i].code = results[Len(results)].code
                 THEN [i \in 1..Len(d) |->
                         IF d[i].code = results[Len(results)].code
                         THEN results[Len(results)] ELSE d[i]]
                 ELSE Append(d, results[Len(results)]))

\* enhanced_mappings[code] once the searches of the code are done.
enhanced_entry(code, lists) ==
    [name |-> CuratedNames[code],
     tm2_codes |-> py_prefix(dict_values_by_code(lists.tm2), 2),
     biomed_codes |-> py_prefix(dict_values_by_code(lists.biomed), 2),
     search_performed |-> TRUE]

NoLists == [tm2 |-> <<>>, biomed |-> <<>>]
NoMappings == <<>>

(***************************************************************************)
(* The command-line tool (namaste_cli.py).                                 *)
(***************************************************************************)
\* fallback_mappings of NAMASTETerminologyCLI: the static table again.
fallback_mappings == icd_mappings

Tm2DisplayPrefix == <<"I","C","D","-","1","1"," ","T","M","2",":"," ">>
BiomedDisplayPrefix ==
    <<"I","C","D","-","1","1"," ","B","i","o","m","e","d","i","c","i","n","e",":"," ">>

\* self.fallback_mappings.get(code, {"tm2": "UNKNOWN", "biomed": "UNKNOWN", ...})
fallback_of(code) ==
    IF code \in DOMAIN fallback_mappings THEN fallback_mappings[code]
    ELSE [tm2 |-> UNKNOWN, biomed |-> UNKNOWN]

\* get_icd_mappings_for_code(code)
get_icd_mappings_for_code(use_api, mappings, code) ==
    IF use_api /\ DOMAIN mappings # {} /\ code \in DOMAIN mappings
    THEN [tm2 |-> IF mappings[code].tm2_codes # <<>>
                  THEN mappings[code].tm2_codes[1].code ELSE UNKNOWN,
          biomed |-> IF mappings[code].biomed_codes # <<>>
                     THEN mappings[code].biomed_codes[1].code ELSE UNKNOWN,
          tm2_display |-> IF mappings[code].tm2_codes # <<>>
                          THEN mappings[code].tm2_codes[1].display ELSE <<>>,
          biomed_display |-> IF mappings[code].biomed_codes # <<>>
                             THEN mappings[code].biomed_codes[1].display ELSE <<>>,
          source |-> "WHO_ICD11_API"]
    ELSE [tm2 |-> fallback_of(code).tm2,
          biomed |-> fallback_of(code).biomed,
          tm2_display |-> Tm2DisplayPrefix \o fallback_of(code).tm2,
          biomed_display |-> BiomedDisplayPrefix \o fallback_of(code).biomed,
          source |-> "FALLBACK"]

\* One row of namaste_data: the CSV row with the mapping written into it.
parsed_row(r, mapping) ==
    [Code |-> r.Code, Disease |-> r.Disease, Short_Definition |-> r.Short_Definition,
     icd11_tm2_code |-> mapping.tm2, icd11_biomed_code |-> mapping.biomed,
     icd11_tm2_display |-> mapping.tm2_display,
     icd11_biomed_display |-> mapping.biomed_display,
     mapping_source |-> mapping.source]

\* unique_codes of the two generators: the first row of every non-empty
\* Code, in the order the Codes first appear.
RECURSIVE unique_codes(_)
unique_codes(data) ==
    IF data = <<>> THEN <<>>
    ELSE Let1(unique_codes(SubSeq(data, 1, Len(data) - 1)),
              LAMBDA init :
                 IF \/ data[Len(data)].Code = <<>>
                    \/ \E i \in 1..Len(init) : init[i].Code = data[Len(data)].Code
                 THEN init ELSE Append(init, data[Len(data)]))

\* generate_fhir_codesystem(): the concept list of the CodeSystem.
generate_fhir_codesystem(data) ==
    Let1(unique_codes(data),
         LAMBDA rows :
            [defined |-> TRUE, version |-> "1.0.0",
             concept |-> [i \in 1..Len(rows) |->
                            [code |-> rows[i].Code, display |-> rows[i].Disease,
                             definition |-> rows[i].Short_Definition]]])

\* The targets generate_fhir_conceptmap() gives one row: a code that is
\* empty or "UNKNOWN" gets none.
cli_targets(row) ==
    (IF row.icd11_tm2_code # <<>> /\ row.icd11_tm2_code # UNKNOWN
     THEN << [code |-> row.icd11_tm2_code, display |-> row.icd11_tm2_display,
              equivalence |-> "equivalent",
              comment |-> <<"TM2", row.mapping_source>>] >>
     ELSE <<>>)
    \o (IF row.icd11_biomed_code # <<>> /\ row.icd11_biomed_code # UNKNOWN
        THEN << [code |-> row.icd11_biomed_code, display |-> row.icd11_biomed_display,
                 equivalence |-> "equivalent",
                 comment |-> <<"Biomedicine", row.mapping_source>>] >>
        ELSE <<>>)

\* generate_fhir_conceptmap(): an element for every unique Code that has a
\* target.
generate_fhir_conceptmap(data) ==
    Let1(SelectRows(unique_codes(data),
                    [i \in 1..Len(unique_codes(data)) |->
                        cli_targets(unique_codes(data)[i]) # <<>>]),
         LAMBDA rows :
            [defined |-> TRUE, version |-> "2.0.0",
             element |-> [i \in 1..Len(rows) |->
                            [code |-> rows[i].Code, display |-> rows[i].Disease,
                             target |-> cli_targets(rows[i])]]])

(***************************************************************************)
(* The state: the server's globals (main.py) and the command-line tool     *)
(* with its adapter and the cache directory.                               *)
(***************************************************************************)
VARIABLES
    df_namaste,           \* the global DataFrame
    TERMINOLOGY_VERSION,  \* 0 is the initial "1.0.0", n > 0 the timestamp n
    namaste_codesystem,   \* the published CodeSystem, Undefined before an ingest
    concept_map,          \* the published ConceptMap, Undefined before an ingest
    last,                 \* the latest request and its response
    pc,                   \* where the command-line run stands
    use_icd11_api,        \* NAMASTETerminologyCLI.use_icd11_api
    icd11_client,         \* <<>> for None, <<client>> for the adapter object
    enhanced_mappings,    \* NoMappings for None
    namaste_data,         \* the parsed rows
    cache,                \* the cache file of every search key
    now,                  \* datetime.now()
    enrich,               \* the locals of get_enhanced_namaste_mappings
    init_exception,       \* what _initialize_icd11_client caught, or "none"
    traffic,              \* of the command-line run: a token ever requested, ever granted
    threads               \* the threads inside a handler or an adapter call, with
                          \* their position and locals; <<>> when calls are atomic

server_vars == <<df_namaste, TERMINOLOGY_VERSION, namaste_codesystem, concept_map, last>>
cli_vars ==
    <<pc, use_icd11_api, icd11_client, enhanced_mappings, namaste_data, cache, now,
      enrich, init_exception, traffic>>
vars == <<server_vars, cli_vars, threads>>

StartTime == cache_duration
EnrichStart ==
    [code_index |-> 1, term_index |-> 1, lists |-> NoLists, mappings |-> NoMappings]
NoTraffic == [token_requested |-> FALSE, token_granted |-> FALSE]

\* The cache directory a run can find: no file, or one file left by an
\* earlier run (fresh, expired, or damaged), for the first term searched or
\* for the last.
LeftoverFiles ==
    { NotJsonFile, NotObjectFile,
      CacheEntry(StartTime - 3600, <<EntBiomed>>), CacheEntry(0, <<EntTm2>>) }
\* The cache keys of fetch_tm2_codes and fetch_biomedicine_codes.
Tm2Key == "icd11_tm2_codes"
BiomedicineKey == "icd11_biomedicine_codes"
CacheKeys == AllTerms \cup {Tm2Key, BiomedicineKey}
EmptyCache == [t \in CacheKeys |-> MissingFile]
FirstTerm == TermsOf(CuratedCodes[1])[1]
LastTerm ==
    TermsOf(CuratedCodes[Len(CuratedCodes)])[Len(TermsOf(CuratedCodes[Len(CuratedCodes)]))]
InitialCaches ==
    {EmptyCache}
    \cup {[EmptyCache EXCEPT ![t] = f] : t \in {FirstTerm, LastTerm}, f \in LeftoverFiles}

ServerInit ==
    /\ df_namaste = EmptyFrame
    /\ TERMINOLOGY_VERSION = 0
    /\ namaste_codesystem = Undefined
    /\ concept_map = Undefined
    /\ last = [op |-> "none"]

CliInit ==
    /\ pc = "new"
    /\ use_icd11_api = FALSE
    /\ icd11_client = <<>>
    /\ enhanced_mappings = NoMappings
    /\ namaste_data = <<>>
    /\ now = StartTime
    /\ enrich = EnrichStart
    /\ init_exception = "none"
    /\ traffic = NoTraffic

\* The server: the cache directory plays no part.
NoThreads == <<>>
Init == ServerInit /\ CliInit /\ cache = EmptyCache /\ threads = NoThreads

\* POST /ingest-namaste with the file f, at a time when datetime.now() formats
\* to ts (the clock does not run backwards).
ingest_namaste(f, ts) ==
    /\ ts >= TERMINOLOGY_VERSION
    /\ UNCHANGED cli_vars
    /\ UNCHANGED threads
    /\ IF ~f.readable
       THEN /\ last' = [op |-> "ingest", status |-> "error"]
            /\ UNCHANGED <<df_namaste, TERMINOLOGY_VERSION, namaste_codesystem, concept_map>>
       ELSE IF "Code" \notin f.cols
       THEN /\ df_namaste' = read_csv(f)
            /\ last' = [op |-> "ingest", status |-> "error"]
            /\ UNCHANGED <<TERMINOLOGY_VERSION, namaste_codesystem, concept_map>>
       ELSE \E df \in {add_icd_columns(read_csv(f))} :
                /\ df_namaste' = df
                /\ TERMINOLOGY_VERSION' = ts
                /\ IF update_fhir_raises(df)
                   THEN /\ last' = [op |-> "ingest", status |-> "error"]
                        /\ UNCHANGED <<namaste_codesystem, concept_map>>
                   ELSE /\ namaste_codesystem' = codesystem_of(df, ts)
                        /\ concept_map' = conceptmap_of(df, ts)
                        /\ last' = [op |-> "ingest", status |-> "success"]

\* POST /search
custom_search(query, limit, threshold) ==
    \E out \in {search_outcome(df_namaste, query, limit, threshold)} :
        /\ df_namaste' = out.df
        /\ last' = [op |-> "search", query |-> query, limit |-> limit,
                    threshold |-> threshold, status |-> out.status,
                    results |-> out.results]
        /\ UNCHANGED <<TERMINOLOGY_VERSION, namaste_codesystem, concept_map>>
        /\ UNCHANGED cli_vars
        /\ UNCHANGED threads

\* One entry of expansion.contains.
contains_entry(result) ==
    [code |-> result.namaste_code, display |-> result.display_name,
     designation |-> result.definition, tm2 |-> result.tm2_mapping,
     biomedicine |-> result.biomedicine_mapping,
     confidence_score |-> result.confidence_score,
     match_type |-> result.match_type]

ExpandThreshold == 60

\* GET /ValueSet/$expand?filter=...&count=...: HTTP 400 for a missing or
\* empty filter, otherwise fuzzy_search_terms(filter, count, 60) and the
\* expansion built from its results.
valueset_expand(filter, count) ==
    /\ IF filter = <<>>
       THEN /\ last' = [op |-> "expand", filter |-> filter, count |-> count,
                        status |-> "bad_request", contains |-> <<>>]
            /\ UNCHANGED df_namaste
       ELSE \E out \in {search_outcome(df_namaste, filter, count, ExpandThreshold)} :
               /\ df_namaste' = out.df
               /\ last' = [op |-> "expand", filter |-> filter, count |-> count,
                           status |-> out.status,
                           contains |-> [i \in 1..Len(out.results) |->
                                           contains_entry(out.results[i])]]
    /\ UNCHANGED <<TERMINOLOGY_VERSION, namaste_codesystem, concept_map>>
    /\ UNCHANGED cli_vars
    /\ UNCHANGED threads

\* POST /translate
translate(code, source_system, target_system) ==
    \E out \in {translate_code(df_namaste, code, source_system, target_system)} :
        /\ last' = [op |-> "translate", code |-> code, system |-> source_system,
                    target_system |-> target_system, status |-> out.status,
                    match |-> out.match]
        /\ UNCHANGED <<df_namaste, TERMINOLOGY_VERSION, namaste_codesystem, concept_map>>
        /\ UNCHANGED cli_vars
        /\ UNCHANGED threads

Next ==
    \/ \E f \in CsvFiles, ts \in Timestamps : ingest_namaste(f, ts)
    \/ \E q \in Queries, l \in Limits, th \in Thresholds : custom_search(q, l, th)
    \/ \E q \in Queries, l \in Limits : valueset_expand(q, l)
    \/ \E c \in RequestCodes, s \in Systems, t \in Systems : translate(c, s, t)

Spec == Init /\ [][Next]_vars

(***************************************************************************)
(* The command-line run: NAMASTETerminologyCLI(use_icd11_api), whose       *)
(* enrichment searches one curated term per step, then parse_csv.          *)
(***************************************************************************)
\* NAMASTETerminologyCLI.__init__ up to the first search: without the API,
\* or when ICD11APIClient() raises for want of credentials, the tool is
\* ready with its fallback table.
cli_init(use_api, credentials) ==
    /\ pc = "new"
    /\ IF ~use_api
       THEN /\ pc' = "ready"
            /\ UNCHANGED <<use_icd11_api, icd11_client, init_exception>>
       ELSE IF ~credentials
       THEN /\ pc' = "ready"
            /\ use_icd11_api' = FALSE
            /\ icd11_client' = <<>>
            /\ init_exception' = "ValueError"
       ELSE /\ pc' = "enriching"
            /\ use_icd11_api' = TRUE
            /\ icd11_client' = <<NewClient>>
            /\ UNCHANGED init_exception
    /\ UNCHANGED <<enhanced_mappings, namaste_data, cache, now, enrich, traffic>>
    /\ UNCHANGED server_vars
    /\ UNCHANGED threads

\* The times datetime.now() is read at: the start and the seconds after it,
\* the seconds before, at and after the early refresh of a default token
\* obtained at the start, and the last second of the life of a cache entry
\* written at the start and the second that ends it.
RefreshTime == StartTime + DefaultExpiresIn - RefreshMargin
EntryEnd == StartTime + cache_duration
ClockPoints ==
    {StartTime + a : a \in 0..(MaxClock - 1)}
    \cup {RefreshTime - 1, RefreshTime, RefreshTime + 1}
    \cup {EntryEnd - 1, EntryEnd}

\* The requests wait for their answers, each no longer than its timeout
\* (lines 107 and 138), and the clock is read again when an answer has
\* come: granted_at in authenticate (line 114), saved_at in _save_to_cache
\* (line 67).  The time after a call that asked the token
\* endpoint, the API, or neither.
ClockAfter(token_requested, api_requested, granted_at, saved_at) ==
    IF api_requested THEN saved_at ELSE IF token_requested THEN granted_at ELSE now
RequestTimeout == 30
WaitEnds(since) == {t \in ClockPoints : since <= t /\ t <= since + RequestTimeout}
LaterClocks == {t \in ClockPoints \X ClockPoints : t[1] \in WaitEnds(now) /\ t[2] \in WaitEnds(t[1])}

\* An endpoint that is not asked gives no answer, and no time is spent
\* waiting for it.
Unasked(response, since, until) == response.kind = "network_error" /\ until = since

\* The locals of get_enhanced_namaste_mappings after the search of the
\* current term returned results.
enrich_after(results) ==
    Let1(collect_results(py_prefix(results, 2), enrich.lists),
         LAMBDA lists :
            IF enrich.term_index < Len(TermsOf(CuratedCodes[enrich.code_index]))
            THEN [enrich EXCEPT !.term_index = @ + 1, !.lists = lists]
            ELSE [code_index |-> enrich.code_index + 1, term_index |-> 1,
                  lists |-> NoLists,
                  mappings |->
                      (CuratedCodes[enrich.code_index] :>
                          enhanced_entry(CuratedCodes[enrich.code_index], lists))
                      @@ enrich.mappings])

\* One turn of "for search_term in info['search_terms']": search_codes for
\* the current term, with what the two endpoints answer if they are asked.
\* An exception ends _initialize_icd11_client in its except branch; the last
\* term ends it with the mappings assigned.
enrich_term(token_response, api_response, granted_at, saved_at) ==
    /\ pc = "enriching"
    /\ \E term \in {TermsOf(CuratedCodes[enrich.code_index])[enrich.term_index]} :
       \E out \in {search_codes(icd11_client[1], cache[term], now, granted_at, saved_at,
                                token_response, api_response)} :
          /\ out.token_requested \/ Unasked(token_response, now, granted_at)
          /\ out.api_requested \/ Unasked(api_response, granted_at, saved_at)
          /\ now' = ClockAfter(out.token_requested, out.api_requested, granted_at, saved_at)
          /\ traffic' = [token_requested |-> traffic.token_requested \/ out.token_requested,
                         token_granted |-> traffic.token_granted \/ out.token_ok]
          /\ cache' = [cache EXCEPT ![term] = out.file]
          /\ IF out.raised # "none"
             THEN /\ pc' = "ready"
                  /\ use_icd11_api' = FALSE
                  /\ icd11_client' = <<>>
                  /\ init_exception' = out.raised
                  /\ UNCHANGED <<enhanced_mappings, enrich>>
             ELSE \E after \in {enrich_after(out.results)} :
                  /\ enrich' = after
                  /\ icd11_client' = <<out.client>>
                  /\ IF after.code_index > Len(CuratedCodes)
                     THEN pc' = "ready" /\ enhanced_mappings' = after.mappings
                     ELSE UNCHANGED <<pc, enhanced_mappings>>
                  /\ UNCHANGED <<use_icd11_api, init_exception>>
    /\ UNCHANGED namaste_data
    /\ UNCHANGED server_vars
    /\ UNCHANGED threads

\* parse_csv(csv_file_path): False for a file it cannot open, otherwise every
\* row with its mapping.
parse_csv(f) ==
    /\ pc = "ready"
    /\ IF ~f.readable
       THEN pc' = "parse_failed" /\ UNCHANGED namaste_data
       ELSE /\ pc' = "parsed"
            /\ namaste_data' =
                  [i \in 1..Len(f.rows) |->
                      parsed_row(f.rows[i],
                          get_icd_mappings_for_code(use_icd11_api, enhanced_mappings,
                                                    f.rows[i].Code))]
    /\ UNCHANGED <<use_icd11_api, icd11_client, enhanced_mappings, cache, now, enrich,
                   init_exception, traffic>>
    /\ UNCHANGED server_vars
    /\ UNCHANGED threads

\* The files given to --input: one with a row of each kind of Code (in the
\* curated table twice, in neither table), one without a Code column, and a
\* path that cannot be opened.
RowKasa == CsvRow(CodeEA3, <<"K","a","s","a">>, <<"c","o","u","g","h">>)
CliFiles ==
    { [readable |-> TRUE, cols |-> CsvColumns, rows |-> <<RowVata, RowVati, RowKasa>>],
      DropColumn([readable |-> TRUE, cols |-> CsvColumns, rows |-> <<RowVata>>], "Code"),
      UnreadableCsv }

InitCli == ServerInit /\ CliInit /\ cache \in InitialCaches /\ threads = NoThreads

NextCli ==
    \/ \E use_api \in BOOLEAN, credentials \in BOOLEAN : cli_init(use_api, credentials)
    \/ \E tr \in TokenResponses, ar \in ApiResponses, t \in LaterClocks :
          enrich_term(tr, ar, t[1], t[2])
    \/ \E f \in CliFiles : parse_csv(f)

SpecCli == InitCli /\ [][NextCli]_vars

(***************************************************************************)
(* The server with its threads.  ingest_namaste and translate_code are     *)
(* coroutines without an await: they run on the event loop one after the   *)
(* other.  custom_search is a plain function: it runs on a worker thread   *)
(* of the pool, and the interpreter may switch between it and the event    *)
(* loop between any two statements.  Both sides use the global df_namaste  *)
(* by name, statement by statement, with no lock.                          *)
(***************************************************************************)
\* What a statement sees of the table: the number of read_csv assignments
\* made so far, and whether the table carries its two mapping columns.
TableComplete(df) == df = EmptyFrame \/ MappingColumns \subseteq df.cols
Observed == [generation |-> threads.loop.generation, complete |-> TableComplete(df_namaste)]

\* NaN: what pandas puts where an aligned Series has no value.
NaN == <<"NaN", "float">>

IdleWorker ==
    [pc |-> "idle", handler |-> "none", query |-> <<>>, limit |-> 0, threshold |-> 0,
     disease |-> <<>>, definition |-> <<>>, text |-> <<>>,
     exact_results |-> <<>>, seen |-> <<>>]
ServerThreads == [loop |-> [pc |-> "idle", generation |-> 0], worker |-> IdleWorker]

\* The uploads and requests of the threaded runs.
ThreadFiles ==
    { [readable |-> TRUE, cols |-> CsvColumns, rows |-> <<RowVata>>],
      [readable |-> TRUE, cols |-> CsvColumns, rows |-> <<RowVati, RowVata>>] }
ThreadQueries == { <<"a">>, <<"v","a","a","t">> }
ThreadFilters == { <<>>, <<"v","a","a","t">> }
ThreadLimits == {1, MaxLimit}
ThreadThresholds == {0}

\* Line 136: df_namaste = pd.read_csv(file.file)
ingest_read(f) ==
    /\ threads.loop.pc = "idle"
    /\ threads.loop.generation < MaxIngests
    /\ IF ~f.readable
       THEN /\ last' = [op |-> "ingest", status |-> "error"]
            /\ UNCHANGED <<df_namaste, threads>>
       ELSE /\ df_namaste' = read_csv(f)
            /\ threads' = [threads EXCEPT !.loop = [pc |-> "map_tm2",
                                                    generation |-> @.generation + 1]]
            /\ UNCHANGED last
    /\ UNCHANGED <<TERMINOLOGY_VERSION, namaste_codesystem, concept_map>>
    /\ UNCHANGED cli_vars

\* Line 138: df_namaste['icd11_tm2_code'] = df_namaste['Code'].map(...)
ingest_map_tm2 ==
    /\ threads.loop.pc = "map_tm2"
    /\ IF "Code" \notin df_namaste.cols
       THEN /\ last' = [op |-> "ingest", status |-> "error"]
            /\ threads' = [threads EXCEPT !.loop.pc = "idle"]
            /\ UNCHANGED df_namaste
       ELSE /\ df_namaste' = add_tm2_column(df_namaste)
            /\ threads' = [threads EXCEPT !.loop.pc = "map_biomed"]
            /\ UNCHANGED last
    /\ UNCHANGED <<TERMINOLOGY_VERSION, namaste_codesystem, concept_map>>
    /\ UNCHANGED cli_vars

\* Line 139: df_namaste['icd11_biomed_code'] = df_namaste['Code'].map(...)
ingest_map_biomed ==
    /\ threads.loop.pc = "map_biomed"
    /\ df_namaste' = add_biomed_column(df_namaste)
    /\ threads' = [threads EXCEPT !.loop.pc = "version"]
    /\ UNCHANGED <<TERMINOLOGY_VERSION, namaste_codesystem, concept_map, last>>
    /\ UNCHANGED cli_vars

\* Line 142: TERMINOLOGY_VERSION = datetime.now().strftime(...)
ingest_set_version(ts) ==
    /\ threads.loop.pc = "version"
    /\ ts >= TERMINOLOGY_VERSION
    /\ TERMINOLOGY_VERSION' = ts
    /\ threads' = [threads EXCEPT !.loop.pc = "codesystem"]
    /\ UNCHANGED <<df_namaste, namaste_codesystem, concept_map, last>>
    /\ UNCHANGED cli_vars

\* Lines 83-94 of update_fhir_resources: namaste_codesystem = {...}; a
\* KeyError raised while it is built ends the ingest with its error response.
ingest_build_codesystem ==
    /\ threads.loop.pc = "codesystem"
    /\ IF update_fhir_raises(df_namaste)
       THEN /\ last' = [op |-> "ingest", status |-> "error"]
            /\ threads' = [threads EXCEPT !.loop.pc = "idle"]
            /\ UNCHANGED namaste_codesystem
       ELSE /\ namaste_codesystem' = codesystem_of(df_namaste, TERMINOLOGY_VERSION)
            /\ threads' = [threads EXCEPT !.loop.pc = "conceptmap"]
            /\ UNCHANGED last
    /\ UNCHANGED <<df_namaste, TERMINOLOGY_VERSION, concept_map>>
    /\ UNCHANGED cli_vars

\* Lines 95-118 of update_fhir_resources: concept_map = {...}, and lines
\* 145-147, which change none of the globals: the audit log and the response.
ingest_build_conceptmap ==
    /\ threads.loop.pc = "conceptmap"
    /\ concept_map' = conceptmap_of(df_namaste, TERMINOLOGY_VERSION)
    /\ last' = [op |-> "ingest", status |-> "success"]
    /\ threads' = [threads EXCEPT !.loop.pc = "idle"]
    /\ UNCHANGED <<df_namaste, TERMINOLOGY_VERSION, namaste_codesystem>>
    /\ UNCHANGED cli_vars

\* POST /translate, when the event loop is free to run it.
translate_on_loop(code, source_system, target_system) ==
    /\ threads # NoThreads
    /\ threads.loop.pc = "idle"
    /\ translate(code, source_system, target_system)

\* The worker's call has ended: the response of its handler, and the worker
\* idle again with the record of what the call saw.
search_ends(w, status, results) ==
    /\ last' = IF w.handler = "valueset_expand"
               THEN [op |-> "expand", filter |-> w.query, count |-> w.limit,
                     status |-> status,
                     contains |-> [i \in 1..Len(results) |-> contains_entry(results[i])]]
               ELSE [op |-> "search", query |-> w.query, limit |-> w.limit,
                     threshold |-> w.threshold, status |-> status, results |-> results]
    /\ threads' = [threads EXCEPT !.worker = [IdleWorker EXCEPT !.seen = w.seen]]

\* The call of fuzzy_search_terms(query, limit, threshold) by `handler`, up
\* to line 238: if df_namaste.empty: return []
search_begin(handler, query, limit, threshold) ==
    \E w \in {[IdleWorker EXCEPT !.handler = handler, !.query = query, !.limit = limit,
                                 !.threshold = threshold, !.seen = <<Observed>>]} :
       IF is_empty(df_namaste)
       THEN search_ends(w, "ok", <<>>)
       ELSE /\ threads' = [threads EXCEPT !.worker = [w EXCEPT !.pc = "read_disease"]]
            /\ UNCHANGED last

\* POST /search on a worker thread, lines 571-580 and 238.
search_check(query, limit, threshold) ==
    /\ threads.worker.pc = "idle"
    /\ search_begin("custom_search", query, limit, threshold)
    /\ UNCHANGED <<df_namaste, TERMINOLOGY_VERSION, namaste_codesystem, concept_map>>
    /\ UNCHANGED cli_vars

\* GET /ValueSet/$expand on a worker thread, lines 509-513 and 238.
expand_check(filter, count) ==
    /\ threads.worker.pc = "idle"
    /\ IF filter = <<>>
       THEN /\ last' = [op |-> "expand", filter |-> filter, count |-> count,
                        status |-> "bad_request", contains |-> <<>>]
            /\ UNCHANGED threads
       ELSE search_begin("valueset_expand", filter, count, ExpandThreshold)
    /\ UNCHANGED <<df_namaste, TERMINOLOGY_VERSION, namaste_codesystem, concept_map>>
    /\ UNCHANGED cli_vars

\* The values of one column of the table as the worker reads them, or the
\* KeyError of a table without the column.
search_read_column(column, field, next_pc) ==
    /\ \E w \in {[threads.worker EXCEPT !.seen = Append(@, Observed)]} :
          IF column \notin df_namaste.cols
          THEN search_ends(w, "KeyError", <<>>)
          ELSE /\ threads' =
                     [threads EXCEPT !.worker =
                         [w EXCEPT !.pc = next_pc,
                                   ![field] = [i \in 1..Len(df_namaste.rows) |->
                                                  df_namaste.rows[i][column]]]]
               /\ UNCHANGED last
    /\ UNCHANGED <<df_namaste, TERMINOLOGY_VERSION, namaste_codesystem, concept_map>>
    /\ UNCHANGED cli_vars

\* Line 244: df_namaste['Disease'].astype(str)
search_read_disease ==
    /\ threads.worker.pc = "read_disease"
    /\ search_read_column("Disease", "disease", "read_definition")

\* Line 245: df_namaste['Short_Definition'].astype(str)
search_read_definition ==
    /\ threads.worker.pc = "read_definition"
    /\ search_read_column("Short_Definition", "definition", "read_code")

\* The sum of three Series and its .str.lower(): pandas aligns them on the
\* row index, and a row that one of them lacks gets NaN.
aligned_text(disease, definition, code) ==
    [i \in 1..SetMax({Len(disease), Len(definition), Len(code)}) |->
        IF i <= Len(disease) /\ i <= Len(definition) /\ i <= Len(code)
        THEN lower(disease[i] \o <<" ">> \o definition[i] \o <<" ">> \o code[i])
        ELSE NaN]

\* Lines 246-247: df_namaste['Code'].astype(str), the sum and .str.lower()
search_read_code ==
    /\ threads.worker.pc = "read_code"
    /\ \E w \in {[threads.worker EXCEPT !.seen = Append(@, Observed)]} :
          IF "Code" \notin df_namaste.cols
          THEN search_ends(w, "KeyError", <<>>)
          ELSE /\ threads' =
                     [threads EXCEPT !.worker =
                         [w EXCEPT !.pc = "store_text",
                                   !.disease = <<>>, !.definition = <<>>,
                                   !.text = aligned_text(w.disease, w.definition,
                                               [i \in 1..Len(df_namaste.rows) |->
                                                   df_namaste.rows[i].Code])]]
               /\ UNCHANGED last
    /\ UNCHANGED <<df_namaste, TERMINOLOGY_VERSION, namaste_codesystem, concept_map>>
    /\ UNCHANGED cli_vars

\* df['searchable_text'] = text: the column is aligned on the row index of
\* the frame it is stored into.
store_searchable_text(df, text) ==
    [cols |-> df.cols \cup {"searchable_text"},
     rows |-> [i \in 1..Len(df.rows) |->
                 [df.rows[i] EXCEPT !.searchable_text =
                     IF i <= Len(text) THEN text[i] ELSE NaN]]]

\* Line 243: df_namaste['searchable_text'] = ..., the store into the table
\* that df_namaste names now.
search_store_text ==
    /\ threads.worker.pc = "store_text"
    /\ \E w \in {[threads.worker EXCEPT !.seen = Append(@, Observed)]} :
          /\ df_namaste' = store_searchable_text(df_namaste, w.text)
          /\ threads' = [threads EXCEPT !.worker = [w EXCEPT !.pc = "exact",
                                                            !.text = <<>>]]
    /\ UNCHANGED <<TERMINOLOGY_VERSION, namaste_codesystem, concept_map, last>>
    /\ UNCHANGED cli_vars

\* Lines 249-252: exact_results = get_exact_matches(df_namaste, query_lower)
\* and the early return.
search_exact ==
    /\ threads.worker.pc = "exact"
    /\ \E w \in {[threads.worker EXCEPT !.seen = Append(@, Observed)]} :
       \E exact_results \in {IF SearchColumns \subseteq df_namaste.cols
                             THEN get_exact_matches(df_namaste, strip(lower(w.query)))
                             ELSE <<>>} :
          IF ~(SearchColumns \subseteq df_namaste.cols)
          THEN search_ends(w, "KeyError", <<>>)
          ELSE IF exact_results # <<>> /\ ~(MappingColumns \subseteq df_namaste.cols)
          THEN search_ends(w, "KeyError", <<>>)
          ELSE IF Len(exact_results) >= w.limit
          THEN search_ends(w, "ok", py_prefix(exact_results, w.limit))
          ELSE /\ threads' = [threads EXCEPT !.worker =
                                 [w EXCEPT !.pc = "fuzzy",
                                           !.exact_results = exact_results]]
               /\ UNCHANGED last
    /\ UNCHANGED <<df_namaste, TERMINOLOGY_VERSION, namaste_codesystem, concept_map>>
    /\ UNCHANGED cli_vars

\* Lines 254-266: get_fuzzy_matches(df_namaste, ...), the merge, the return.
\* process.extract runs its processor on every choice and raises TypeError
\* on one that is NaN.
search_fuzzy ==
    /\ threads.worker.pc = "fuzzy"
    /\ \E w \in {[threads.worker EXCEPT !.seen = Append(@, Observed)]} :
          IF "searchable_text" \notin df_namaste.cols
          THEN search_ends(w, "KeyError", <<>>)
          ELSE IF \E i \in 1..Len(df_namaste.rows) : df_namaste.rows[i].searchable_text = NaN
          THEN search_ends(w, "TypeError", <<>>)
          ELSE \E fuzzy_results \in
                    {get_fuzzy_matches(df_namaste, strip(lower(w.query)),
                                       w.limit - Len(w.exact_results), w.threshold)} :
                  IF fuzzy_results # <<>> /\ ~(MappingColumns \subseteq df_namaste.cols)
                  THEN search_ends(w, "KeyError", <<>>)
                  ELSE search_ends(w, "ok",
                          py_prefix(dedupe_by_code(w.exact_results \o fuzzy_results),
                                    w.limit))
    /\ UNCHANGED <<df_namaste, TERMINOLOGY_VERSION, namaste_codesystem, concept_map>>
    /\ UNCHANGED cli_vars

InitThreads == ServerInit /\ CliInit /\ cache = EmptyCache /\ threads = ServerThreads

NextThreads ==
    \/ \E f \in ThreadFiles : ingest_read(f)
    \/ ingest_map_tm2
    \/ ingest_map_biomed
    \/ \E ts \in Timestamps : ingest_set_version(ts)
    \/ ingest_build_codesystem
    \/ ingest_build_conceptmap
    \/ \E c \in {CodeAA, CodeZZ} : translate_on_loop(c, "NAMASTE", "TM2")
    \/ \E q \in ThreadQueries, l \in ThreadLimits, th \in ThreadThresholds :
          search_check(q, l, th)
    \/ \E q \in ThreadFilters, l \in ThreadLimits : expand_check(q, l)
    \/ search_read_disease
    \/ search_read_definition
    \/ search_read_code
    \/ search_store_text
    \/ search_exact
    \/ search_fuzzy

SpecThreads == InitThreads /\ [][NextThreads]_vars

(***************************************************************************)
(* One adapter object and the wall clock, outside the command-line run.    *)
(***************************************************************************)
\* The clock moves on to a later time.
tick(t) ==
    /\ t > now
    /\ now' = t
    /\ UNCHANGED <<pc, use_icd11_api, icd11_client, enhanced_mappings, namaste_data,
                   cache, enrich, init_exception, traffic>>
    /\ UNCHANGED server_vars
    /\ UNCHANGED threads

\* An ICD11APIClient() constructed with credentials, before any call.
AdapterInit ==
    /\ pc = "new"
    /\ use_icd11_api = TRUE
    /\ icd11_client = <<NewClient>>
    /\ enhanced_mappings = NoMappings
    /\ namaste_data = <<>>
    /\ now = StartTime
    /\ enrich = EnrichStart
    /\ init_exception = "none"
    /\ traffic = NoTraffic

(***************************************************************************)
(* Several callers of authenticate() on the one adapter.  The method       *)
(* takes no lock; a caller blocked in requests.post (line 107) lets the    *)
(* others run.                                                             *)
(***************************************************************************)
Callers == {"c1", "c2"}
IdleCaller == [pc |-> "idle", expires_in |-> 0, clock |-> NoTime, expiry |-> NoTime]
IdleCallers == [c \in Callers |-> IdleCaller]

\* What authenticate() returned to caller c.
authenticate_returns(c, ok, requested) ==
    /\ last' = [op |-> "authenticate", caller |-> c, ok |-> ok, requested |-> requested]
    /\ threads' = [threads EXCEPT ![c] = IdleCaller]

\* Line 91, its first operand: self.access_token.  Without a token the
\* caller goes on to lines 94-107 and sends the token request.
authenticate_begin(c) ==
    /\ threads[c].pc = "idle"
    /\ threads' = [threads EXCEPT ![c].pc = IF icd11_client[1].access_token # NoToken
                                            THEN "checking" ELSE "posting"]
    /\ UNCHANGED last
    /\ UNCHANGED <<df_namaste, TERMINOLOGY_VERSION, namaste_codesystem, concept_map>>
    /\ UNCHANGED cli_vars

\* Line 91, its second operand: self.token_expires_at, None or a time.
authenticate_check(c) ==
    /\ threads[c].pc = "checking"
    /\ threads' = [threads EXCEPT ![c].pc = IF icd11_client[1].token_expires_at # NoTime
                                            THEN "timing" ELSE "posting"]
    /\ UNCHANGED last
    /\ UNCHANGED <<df_namaste, TERMINOLOGY_VERSION, namaste_codesystem, concept_map>>
    /\ UNCHANGED cli_vars

\* Line 91, the left side of the comparison: datetime.now()
authenticate_now(c) ==
    /\ threads[c].pc = "timing"
    /\ threads' = [threads EXCEPT ![c].pc = "comparing", ![c].clock = now]
    /\ UNCHANGED last
    /\ UNCHANGED <<df_namaste, TERMINOLOGY_VERSION, namaste_codesystem, concept_map>>
    /\ UNCHANGED cli_vars

\* Line 91, the right side of the comparison: self.token_expires_at as it
\* is now, against the time read before; then line 92 or lines 94-107.
authenticate_compare(c) ==
    /\ threads[c].pc = "comparing"
    /\ IF threads[c].clock < icd11_client[1].token_expires_at
       THEN authenticate_returns(c, TRUE, FALSE)
       ELSE /\ threads' = [threads EXCEPT ![c] = [IdleCaller EXCEPT !.pc = "posting"]]
            /\ UNCHANGED last
    /\ UNCHANGED <<df_namaste, TERMINOLOGY_VERSION, namaste_codesystem, concept_map>>
    /\ UNCHANGED cli_vars

\* Lines 107-112: the answer to the token request of caller c.  A failed
\* request returns False (lines 119-121); a granted one stores
\* self.access_token (line 111) and keeps expires_in (line 112).
authenticate_answer(c, token_response) ==
    /\ threads[c].pc = "posting"
    /\ IF token_response.kind # "granted"
       THEN /\ authenticate_returns(c, FALSE, TRUE)
            /\ UNCHANGED icd11_client
       ELSE /\ icd11_client' =
                  <<[icd11_client[1] EXCEPT !.access_token = token_response.access_token]>>
            /\ threads' = [threads EXCEPT ![c] =
                              [IdleCaller EXCEPT !.pc = "granted",
                                                 !.expires_in = token_response.expires_in]]
            /\ UNCHANGED last
    /\ UNCHANGED <<pc, use_icd11_api, enhanced_mappings, namaste_data, cache, now,
                   enrich, init_exception, traffic>>
    /\ UNCHANGED <<df_namaste, TERMINOLOGY_VERSION, namaste_codesystem, concept_map>>

\* Line 114, its right side: datetime.now() + timedelta(seconds=expires_in - 60)
authenticate_expiry(c) ==
    /\ threads[c].pc = "granted"
    /\ threads' = [threads EXCEPT ![c].pc = "storing",
                                  ![c].expiry = now + threads[c].expires_in - RefreshMargin]
    /\ UNCHANGED last
    /\ UNCHANGED <<df_namaste, TERMINOLOGY_VERSION, namaste_codesystem, concept_map>>
    /\ UNCHANGED cli_vars

\* Line 114, the store into self.token_expires_at, and lines 116-117.
authenticate_end(c) ==
    /\ threads[c].pc = "storing"
    /\ icd11_client' =
          <<[icd11_client[1] EXCEPT !.token_expires_at = threads[c].expiry]>>
    /\ authenticate_returns(c, TRUE, TRUE)
    /\ UNCHANGED <<pc, use_icd11_api, enhanced_mappings, namaste_data, cache, now,
                   enrich, init_exception, traffic>>
    /\ UNCHANGED <<df_namaste, TERMINOLOGY_VERSION, namaste_codesystem, concept_map>>

InitCallers == ServerInit /\ AdapterInit /\ cache = EmptyCache /\ threads = IdleCallers

NextCallers ==
    \/ \E c \in Callers : authenticate_begin(c)
    \/ \E c \in Callers : authenticate_check(c)
    \/ \E c \in Callers : authenticate_now(c)
    \/ \E c \in Callers : authenticate_compare(c)
    \/ \E c \in Callers, tr \in TokenResponses : authenticate_answer(c, tr)
    \/ \E c \in Callers : authenticate_expiry(c)
    \/ \E c \in Callers : authenticate_end(c)
    \/ \E t \in ClockPoints : tick(t)

SpecCallers == InitCallers /\ [][NextCallers]_vars

(***************************************************************************)
(* The adapter called again and again by one caller while time passes:     *)
(* authenticate() and search_codes(term) for one curated term.             *)
(***************************************************************************)
\* The cache directory the adapter can find: nothing, or a file of the term
\* in one of its damaged forms, or an entry of an earlier run.
AdapterTerm == FirstTerm
DamagedFiles ==
    { NotJsonFile, NotObjectFile, BadTimestampFile, NonStringTimestampFile,
      NoDataFile(StartTime - 1) }
AdapterCaches ==
    {[EmptyCache EXCEPT ![AdapterTerm] = f] :
        f \in {MissingFile, CacheEntry(0, <<EntTm2>>)} \cup DamagedFiles}

\* client.authenticate()
call_authenticate(token_response, granted_at) ==
    /\ \E out \in {authenticate(icd11_client[1], now, granted_at, token_response)} :
          /\ out.requested \/ Unasked(token_response, now, granted_at)
          /\ icd11_client' = <<out.client>>
          /\ now' = ClockAfter(out.requested, FALSE, granted_at, granted_at)
          /\ last' = [op |-> "authenticate", now |-> now,
                      client_before |-> icd11_client[1], raised |-> out.raised,
                      ok |-> out.ok, requested |-> out.requested,
                      expires_in |-> IF out.requested /\ out.ok
                                     THEN token_response.expires_in ELSE 0,
                      granted_at |-> IF out.requested /\ out.ok THEN granted_at ELSE 0]
    /\ UNCHANGED <<pc, use_icd11_api, enhanced_mappings, namaste_data, cache,
                   enrich, init_exception, traffic>>
    /\ UNCHANGED <<df_namaste, TERMINOLOGY_VERSION, namaste_codesystem, concept_map>>
    /\ UNCHANGED threads

\* What a call that went through the cache of `key` leaves behind.
adapter_call(op, key, out, token_response, api_response, granted_at, saved_at) ==
    /\ out.token_requested \/ Unasked(token_response, now, granted_at)
    /\ out.api_requested \/ Unasked(api_response, granted_at, saved_at)
    /\ icd11_client' = <<out.client>>
    /\ cache' = [cache EXCEPT ![key] = out.file]
    /\ now' = ClockAfter(out.token_requested, out.api_requested, granted_at, saved_at)
    /\ last' = [op |-> op, term |-> key, now |-> now,
                cache_before |-> cache[key], raised |-> out.raised,
                results |-> out.results,
                token_requested |-> out.token_requested,
                token_failed |-> out.token_requested /\ ~out.token_ok,
                expires_in |-> IF out.token_ok THEN token_response.expires_in ELSE 0,
                granted_at |-> IF out.token_ok THEN granted_at ELSE 0,
                api_requested |-> out.api_requested,
                api_failed |-> out.api_requested /\ api_response.kind # "json",
                fetched |-> out.api_requested /\ api_response.kind = "json"
                               /\ truthy(api_response.body),
                saved_at |-> IF out.api_requested THEN saved_at ELSE 0]
    /\ UNCHANGED <<pc, use_icd11_api, enhanced_mappings, namaste_data, enrich,
                   init_exception, traffic>>
    /\ UNCHANGED <<df_namaste, TERMINOLOGY_VERSION, namaste_codesystem, concept_map>>
    /\ UNCHANGED threads

\* client.search_codes(term)
call_search_codes(term, token_response, api_response, granted_at, saved_at) ==
    adapter_call("search_codes", term,
                 search_codes(icd11_client[1], cache[term], now, granted_at, saved_at,
                              token_response, api_response),
                 token_response, api_response, granted_at, saved_at)

\* What the two chapter endpoints can answer to one GET.
FetchResponses ==
    { [kind |-> "network_error", body |-> NoneValue],
      [kind |-> "json", body |-> Json({}, <<>>)],
      [kind |-> "json", body |-> Json({"title"}, <<>>)] }

\* A fetch call: its result is the body, where search_codes has candidates.
call_fetch(op, key, token_response, api_response, granted_at, saved_at) ==
    \E out \in {fetch_codes(icd11_client[1], cache[key], now, granted_at, saved_at,
                            token_response, api_response)} :
       adapter_call(op, key, out @@ [results |-> out.result],
                    token_response, api_response, granted_at, saved_at)

\* client.fetch_tm2_codes()
fetch_tm2_codes(token_response, api_response, granted_at, saved_at) ==
    call_fetch("fetch_tm2_codes", Tm2Key, token_response, api_response,
               granted_at, saved_at)

\* client.fetch_biomedicine_codes()
fetch_biomedicine_codes(token_response, api_response, granted_at, saved_at) ==
    call_fetch("fetch_biomedicine_codes", BiomedicineKey, token_response, api_response,
               granted_at, saved_at)

InitAdapter == ServerInit /\ AdapterInit /\ cache \in AdapterCaches /\ threads = NoThreads

NextAdapter ==
    \/ \E tr \in TokenResponses, t \in WaitEnds(now) : call_authenticate(tr, t)
    \/ \E tr \in TokenResponses, ar \in ApiResponses, t \in LaterClocks :
          call_search_codes(AdapterTerm, tr, ar, t[1], t[2])
    \/ \E t \in ClockPoints : tick(t)

SpecAdapter == InitAdapter /\ [][NextAdapter]_vars

(***************************************************************************)
(* The adapter's two chapter downloads.  They share with search_codes the  *)
(* token alone, which they obtain through authenticate() as every call     *)
(* does; their cache files have keys of their own.                         *)
(***************************************************************************)
InitFetch == ServerInit /\ AdapterInit /\ cache = EmptyCache /\ threads = NoThreads

NextFetch ==
    \/ \E tr \in TokenResponses, t \in WaitEnds(now) : call_authenticate(tr, t)
    \/ \E tr \in TokenResponses, ar \in FetchResponses, t \in LaterClocks :
          fetch_tm2_codes(tr, ar, t[1], t[2])
    \/ \E tr \in TokenResponses, ar \in FetchResponses, t \in LaterClocks :
          fetch_biomedicine_codes(tr, ar, t[1], t[2])
    \/ \E t \in ClockPoints : tick(t)

SpecFetch == InitFetch /\ [][NextFetch]_vars

(***************************************************************************)
(* The two ways to the FHIR resources: the command-line run with its       *)
(* static table (--no-api --all) and the server's ingest.                  *)
(***************************************************************************)
\* main(): generate_fhir_codesystem() and generate_fhir_conceptmap() after
\* parse_csv; both raise ValueError when no row was parsed.
generate_fhir ==
    /\ pc = "parsed"
    /\ IF namaste_data = <<>>
       THEN /\ pc' = "generate_failed"
            /\ last' = [op |-> "generate", status |-> "ValueError"]
       ELSE /\ pc' = "generated"
            /\ last' = [op |-> "generate", status |-> "ok",
                        codesystem |-> generate_fhir_codesystem(namaste_data),
                        conceptmap |-> generate_fhir_conceptmap(namaste_data)]
    /\ UNCHANGED <<use_icd11_api, icd11_client, enhanced_mappings, namaste_data, cache,
                   now, enrich, init_exception, traffic>>
    /\ UNCHANGED <<df_namaste, TERMINOLOGY_VERSION, namaste_codesystem, concept_map>>
    /\ UNCHANGED threads

NextArtifacts ==
    \/ \E f \in FullCsvFiles, ts \in Timestamps : ingest_namaste(f, ts)
    \/ \E credentials \in BOOLEAN : cli_init(FALSE, credentials)
    \/ \E f \in FullCsvFiles : parse_csv(f)
    \/ generate_fhir

SpecArtifacts == Init /\ [][NextArtifacts]_vars

(***************************************************************************)
(* The search contract.                                                    *)
(***************************************************************************)
\* The query of the latest search as the search phases see it.
LastQuery == strip(lower(last.query))

\* The latest search ran on a table that carries every column it reads.
SearchedLoadedTable ==
    /\ last.op = "search"
    /\ (SearchColumns \cup MappingColumns) \subseteq df_namaste.cols

\* Row i is among the rows the exact phase selects, and its rank among them.
IsExactRow(i) ==
    \E c \in SearchColumns : contains(lower(df_namaste.rows[i][c]), LastQuery)
ExactRank(i) == Cardinality({j \in 1..i : IsExactRow(j)})
NumExact == ExactRank(Len(df_namaste.rows))

\* The record of row i is in the latest result with score 100 and type exact,
\* before every fuzzy entry.
AppearsExactFirst(i) ==
    \E p \in 1..Len(last.results) :
        /\ last.results[p] = ResultEntry(df_namaste.rows[i], 100, "exact")
        /\ \A f \in 1..Len(last.results) :
               last.results[f].match_type = "fuzzy" => p < f

\* C1: on a non-empty table, a search whose query is empty after trimming
\* returns an empty sequence, for every limit and threshold.
C1_EmptyQueryReturnsEmpty ==
    (last.op = "search" /\ ~is_empty(df_namaste) /\ strip(last.query) = <<>>)
        => last.results = <<>>

\* C2 as stated, on the tables that carry every column: for every limit and
\* threshold, a record whose lowercased display name contains the trimmed
\* lowercased query is in the result with score 100 and type exact, before
\* every fuzzy entry.
C2_SubstringRecordAlwaysFirst ==
    SearchedLoadedTable =>
        \A i \in 1..Len(df_namaste.rows) :
            contains(lower(df_namaste.rows[i].Disease), LastQuery)
                => AppearsExactFirst(i)

\* C2 amended: on a table with every column the search reads, such a record
\* is in the result with score 100 and type exact, before every fuzzy entry,
\* when it is among the first limit exact-matching rows in table order and
\* either the exact matches number at least limit or no earlier
\* exact-matching row carries its Code.
C2_SubstringRecordFirstWithinLimit ==
    SearchedLoadedTable =>
        \A i \in 1..Len(df_namaste.rows) :
            ( /\ contains(lower(df_namaste.rows[i].Disease), LastQuery)
              /\ ExactRank(i) <= last.limit
              /\ \/ NumExact >= last.limit
                 \/ \A j \in 1..(i - 1) :
                        IsExactRow(j) => df_namaste.rows[j].Code # df_namaste.rows[i].Code )
                => AppearsExactFirst(i)

\* C2 witness: a search returned a display-name match as its exact entry and
\* a fuzzy entry after it.
C2_ExactBeforeFuzzyReached ==
    /\ SearchedLoadedTable
    /\ \E i \in 1..Len(df_namaste.rows) :
          /\ contains(lower(df_namaste.rows[i].Disease), LastQuery)
          /\ ExactRank(i) <= last.limit
          /\ AppearsExactFirst(i)
    /\ \E f \in 1..Len(last.results) : last.results[f].match_type = "fuzzy"

\* C3: for every integer limit the request accepts, a search returns at most
\* limit entries (none when limit is not positive).
C3_AtMostLimitEntries ==
    last.op = "search" =>
        Len(last.results) <= (IF last.limit > 0 THEN last.limit ELSE 0)

\* C4: no two entries of a search result carry the same namaste_code, on the
\* early-return path and on the merged path.
C4_NoDuplicateCode ==
    last.op = "search" =>
        \A p, r \in 1..Len(last.results) :
            last.results[p].namaste_code = last.results[r].namaste_code => p = r

\* What every search request of the model returns or raises on the table df.
Answer(out) == [status |-> out.status, results |-> out.results]
AnswerMemo ==
    [df \in DOMAIN SearchMemo |->
        [a \in SearchRequests |-> Answer(SearchMemo[df][a])] @@ <<>>] @@ <<>>
SearchAnswers(df) ==
    IF df \in DOMAIN AnswerMemo THEN AnswerMemo[df]
    ELSE [a \in SearchRequests |-> Answer(fuzzy_search_terms(df, a[1], a[2], a[3]))]

\* C5: with no ingest in between, a search repeated with the same query, limit
\* and threshold returns the same sequence: a search step, an expansion step
\* or a translate step that changes the table leaves the answer of every
\* search unchanged.
C5_SearchIsRepeatable ==
    [][ (last'.op \in {"search", "expand", "translate"} /\ df_namaste' # df_namaste)
            => SearchAnswers(df_namaste') = SearchAnswers(df_namaste) ]_vars

\* C5 witness: a search has written its searchable_text column into the
\* table and returned an exact entry followed by a fuzzy entry.
C5_SearchChangedTableReached ==
    /\ last.op = "search"
    /\ "searchable_text" \in df_namaste.cols
    /\ \E p, f \in 1..Len(last.results) :
          /\ p < f
          /\ last.results[p].match_type = "exact"
          /\ last.results[f].match_type = "fuzzy"

(***************************************************************************)
(* The translation contract.                                               *)
(***************************************************************************)
\* The latest request is a translation on a non-empty table.
TranslatedOnLoadedTable == last.op = "translate" /\ ~is_empty(df_namaste)

LastPair == <<last.system, last.target_system>>
Tm2Pairs == {<<"NAMASTE", "TM2">>, <<"TM2", "NAMASTE">>}
BiomedicinePairs == {<<"NAMASTE", "BIOMEDICINE">>, <<"BIOMEDICINE", "NAMASTE">>}

\* C6: every match of a NAMASTE -> TM2 translation has a concept code that is
\* present and is not "UNKNOWN".
C6_Tm2MatchesAreMapped ==
    (last.op = "translate" /\ LastPair = <<"NAMASTE", "TM2">>) =>
        \A k \in 1..Len(last.match) :
            last.match[k].concept.code \notin {UNKNOWN, Absent}

\* C6 witness: a NAMASTE -> TM2 translation returned a match from a table
\* that also holds a row without a TM2 mapping.
C6_Tm2MatchReached ==
    /\ last.op = "translate" /\ LastPair = <<"NAMASTE", "TM2">>
    /\ last.status = "ok" /\ last.match # <<>>
    /\ \E i \in 1..Len(df_namaste.rows) : df_namaste.rows[i].icd11_tm2_code = UNKNOWN

\* C7 as stated: in every state of the table, a pair that is not a supported
\* direction gets the unsupported-direction outcome.
C7_UnsupportedPairAlwaysReported ==
    (last.op = "translate" /\ LastPair \notin Tm2Pairs \cup BiomedicinePairs)
        => last.status = "unsupported"

\* C7 amended: a pair that is not a supported direction gets the
\* unsupported-direction outcome when the table is non-empty, and the
\* not-ingested-yet error when it is empty.
C7_UnsupportedPairReportedOnceLoaded ==
    (last.op = "translate" /\ LastPair \notin Tm2Pairs \cup BiomedicinePairs)
        => last.status = (IF is_empty(df_namaste) THEN "not_ready" ELSE "unsupported")

\* C7 witness: an unsupported pair was reported on a non-empty table.
C7_UnsupportedPairReached ==
    /\ TranslatedOnLoadedTable
    /\ LastPair \notin Tm2Pairs \cup BiomedicinePairs
    /\ last.status = "unsupported"

\* C8: on a loaded table NAMASTE -> BIOMEDICINE returns the
\* biomedicine codes, other than "UNKNOWN", of the rows with that Code,
\* BIOMEDICINE -> NAMASTE returns the Codes of the rows with that biomedicine
\* code, and neither reports an unsupported direction.
C8_BiomedicineDirectionsSupported ==
    (TranslatedOnLoadedTable /\ LastPair \in BiomedicinePairs) =>
        /\ last.status # "unsupported"
        /\ LastPair = <<"NAMASTE", "BIOMEDICINE">> =>
              {last.match[k].concept.code : k \in 1..Len(last.match)}
                = {df_namaste.rows[i].icd11_biomed_code :
                      i \in {j \in 1..Len(df_namaste.rows) :
                                df_namaste.rows[j].Code = last.code}} \ {UNKNOWN}
        /\ LastPair = <<"BIOMEDICINE", "NAMASTE">> =>
              {last.match[k].concept.code : k \in 1..Len(last.match)}
                = {df_namaste.rows[i].Code :
                      i \in {j \in 1..Len(df_namaste.rows) :
                                df_namaste.rows[j].icd11_biomed_code = last.code}}

\* What the code does instead: on a non-empty table both directions between
\* NAMASTE and BIOMEDICINE report an unsupported direction with no match,
\* and the two directions between NAMASTE and TM2 never do.
OnlyTm2DirectionsSupported ==
    TranslatedOnLoadedTable =>
        /\ LastPair \in BiomedicinePairs =>
              (last.status = "unsupported" /\ last.match = <<>>)
        /\ LastPair \in Tm2Pairs => last.status # "unsupported"

\* A biomedicine code that a row of the table carries was translated to
\* NAMASTE and reported as an unsupported direction.
BiomedicineRefusedReached ==
    /\ TranslatedOnLoadedTable
    /\ LastPair = <<"BIOMEDICINE", "NAMASTE">>
    /\ \E i \in 1..Len(df_namaste.rows) : df_namaste.rows[i].icd11_biomed_code = last.code
    /\ last.status = "unsupported"

(***************************************************************************)
(* The enrichment contract.                                                *)
(***************************************************************************)
\* The command-line run steps on until main has called parse_csv.
SpecCliFair == SpecCli /\ WF_vars(NextCli)

\* No curated-term query of the run produced a candidate for the code.
NoCandidate(code) ==
    \/ code \notin DOMAIN enhanced_mappings
    \/ /\ enhanced_mappings[code].tm2_codes = <<>>
       /\ enhanced_mappings[code].biomed_codes = <<>>

\* C9: after parse_csv, a record whose code got no candidate from any curated
\* query carries the static table's TM2 and Biomedicine codes with fallback
\* provenance when the static table has the code, and "UNKNOWN" codes
\* otherwise; it is never left with "UNKNOWN" while a static entry exists.
C9_NoCandidateMeansStaticFallback ==
    pc = "parsed" =>
        \A i \in 1..Len(namaste_data) :
            NoCandidate(namaste_data[i].Code) =>
                IF namaste_data[i].Code \in DOMAIN fallback_mappings
                THEN /\ namaste_data[i].icd11_tm2_code
                          = fallback_mappings[namaste_data[i].Code].tm2
                     /\ namaste_data[i].icd11_biomed_code
                          = fallback_mappings[namaste_data[i].Code].biomed
                     /\ namaste_data[i].mapping_source = "FALLBACK"
                ELSE /\ namaste_data[i].icd11_tm2_code = UNKNOWN
                     /\ namaste_data[i].icd11_biomed_code = UNKNOWN

\* Every token request of the run so far has failed.
AllAuthFailed == traffic.token_requested /\ ~traffic.token_granted
RunOver == pc \in {"parsed", "parse_failed"}

\* What a run whose token requests all failed shows: nothing raised by the
\* adapter's requests stops the enrichment (only a damaged cache file can);
\* an enrichment that ran to its end left an entry for every curated code;
\* every parsed row carries its two codes and their source.
AuthFailureHandled ==
    /\ init_exception \in {"none", "AttributeError"}
    /\ (pc # "enriching" /\ init_exception = "none") =>
          /\ use_icd11_api
          /\ DOMAIN enhanced_mappings = {CuratedCodes[k] : k \in 1..Len(CuratedCodes)}
    /\ pc = "parsed" =>
          \A i \in 1..Len(namaste_data) :
              /\ namaste_data[i].icd11_tm2_code # Absent
              /\ namaste_data[i].icd11_biomed_code # Absent
              /\ namaste_data[i].mapping_source \in {"WHO_ICD11_API", "FALLBACK"}

\* C10: when every authentication attempt fails, the enrichment (client
\* construction, get_enhanced_namaste_mappings, parse_csv) raises nothing to
\* its caller, ends, and leaves a mapping entry for every code.
C10_AuthFailureNeverFatal ==
    /\ [](AllAuthFailed => AuthFailureHandled)
    /\ [](AllAuthFailed => <>RunOver)

\* C10 witness: a run whose token requests all failed has parsed a file, with
\* an entry for every curated code and a mapping on every row.
C10_FailedAuthRunParsedReached ==
    /\ AllAuthFailed
    /\ pc = "parsed"
    /\ init_exception = "none"
    /\ DOMAIN enhanced_mappings = {CuratedCodes[k] : k \in 1..Len(CuratedCodes)}
    /\ Len(namaste_data) = 3

(***************************************************************************)
(* The concurrency contract of the server.                                 *)
(***************************************************************************)
\* C11: in every interleaving of an ingest with a search, each statement of
\* the search call sees the same table generation as its first statement,
\* and never a table without its icd11_tm2_code / icd11_biomed_code columns.
C11_RequestSeesOneCompleteGeneration ==
    \A k \in 1..Len(threads.worker.seen) :
        /\ threads.worker.seen[k].complete
        /\ threads.worker.seen[k].generation = threads.worker.seen[1].generation

(***************************************************************************)
(* The frame of the readers.                                               *)
(***************************************************************************)
\* C12: a search step, an expansion step or a translate step leaves the live
\* table (its rows and its columns), the terminology version and the two
\* published FHIR resources unchanged.
C12_ReadersLeaveTableUnchanged ==
    [][ last'.op \in {"search", "expand", "translate"}
            => /\ df_namaste' = df_namaste
               /\ TERMINOLOGY_VERSION' = TERMINOLOGY_VERSION
               /\ namaste_codesystem' = namaste_codesystem
               /\ concept_map' = concept_map ]_vars

(***************************************************************************)
(* The adapter contract.                                                   *)
(***************************************************************************)
\* C13: of the callers of one adapter, at most one has a token request in
\* flight at any time.
C13_OneTokenRequestInFlight ==
    Cardinality({c \in DOMAIN threads : threads[c].pc = "posting"}) <= 1

\* C14: a search_codes call that finds the entry an earlier successful
\* response left for its term, at a time before cached_at + cache_duration,
\* returns that entry's candidates and sends no request, whatever the
\* entry holds (an empty candidate list included).
C14_FreshEntryAnswersWithoutRequest ==
    ( /\ last.op = "search_codes"
      /\ last.cache_before.form = "entry"
      /\ last.now < last.cache_before.cached_at + cache_duration )
        => /\ ~last.token_requested
           /\ ~last.api_requested
           /\ last.results = last.cache_before.data

\* The forms of cache file that are no valid entry.
InvalidForms == {"not_json", "not_object", "bad_timestamp", "non_string_timestamp", "no_data"}

\* C15: a search_codes call that finds an invalid cache file for its term
\* raises nothing (the file counts as a miss), and when its fetch succeeds
\* the file is overwritten with a valid entry of the candidates returned.
C15_InvalidCacheFileIsAMiss ==
    (last.op = "search_codes" /\ last.cache_before.form \in InvalidForms)
        => /\ last.raised = "none"
           /\ last.fetched => cache[last.term] = CacheEntry(last.saved_at, last.results)

\* The latest adapter call sent a token request that was granted.
TokenGrantedInCall ==
    \/ last.op = "authenticate" /\ last.requested /\ last.ok
    \/ /\ last.op \in {"search_codes", "fetch_tm2_codes", "fetch_biomedicine_codes"}
       /\ last.token_requested /\ ~last.token_failed

\* C16: an authentication that obtained a token at time t with lifetime
\* expires_in sets the expiry to t + expires_in - 60; an authenticate call
\* that finds a token and a time before its expiry returns true, sends no
\* token request and leaves the token and the expiry as they were; a call at
\* or after the expiry sends a token request.
C16_TokenReusedUntilEarlyRefresh ==
    /\ (TokenGrantedInCall /\ icd11_client[1].access_token # NoToken)
          => icd11_client[1].token_expires_at
                 = last.granted_at + last.expires_in - RefreshMargin
    /\ ( /\ last.op = "authenticate"
         /\ last.client_before.access_token # NoToken
         /\ last.client_before.token_expires_at # NoTime )
          => IF last.now < last.client_before.token_expires_at
             THEN last.ok /\ ~last.requested /\ icd11_client[1] = last.client_before
             ELSE last.requested

\* C16 witness: a token of the default lifetime was used up to the second
\* before its early refresh, and the authenticate call made at the second of
\* the refresh, later than the start, sent a token request.
C16_RefreshAtExpiryReached ==
    /\ last.op = "authenticate"
    /\ last.client_before.access_token # NoToken
    /\ last.now = last.client_before.token_expires_at
    /\ last.now = StartTime + DefaultExpiresIn - RefreshMargin
    /\ last.requested

\* C17: a search_codes call whose token request or whose search request
\* failed raises nothing, returns no candidate and leaves the cache file of
\* its term as it was.
C17_FailedRequestGivesNoCandidates ==
    (last.op = "search_codes" /\ (last.token_failed \/ last.api_failed))
        => /\ last.raised = "none"
           /\ last.results = <<>>
           /\ cache[last.term] = last.cache_before

\* C17 witness: the search request of a call failed after its token request
\* was granted, and the expired entry of the term is still in place.
C17_FailedSearchKeptFileReached ==
    /\ last.op = "search_codes"
    /\ last.api_failed
    /\ last.token_requested /\ ~last.token_failed
    /\ last.cache_before.form = "entry"
    /\ cache[last.term] = last.cache_before

(***************************************************************************)
(* The server before its first successful ingest.                          *)
(***************************************************************************)
\* No ingest has succeeded yet: update_fhir_resources never ran to its end.
NeverIngested == namaste_codesystem = Undefined

\* C18: in every state before the first successful ingest, failed ingests
\* included, a search returns an empty result and a translation reports the
\* not-ready outcome; neither ends with an unhandled error.
C18_NotReadyBeforeFirstIngest ==
    NeverIngested =>
        /\ last.op = "search" => (last.status = "ok" /\ last.results = <<>>)
        /\ last.op = "translate" => last.status = "not_ready"

(***************************************************************************)
(* The offline path against the ingest path.                               *)
(***************************************************************************)
\* The records a table or a parsed file was made from.
RecordsOf(rows) ==
    [i \in 1..Len(rows) |-> CsvRow(rows[i].Code, rows[i].Disease, rows[i].Short_Definition)]

\* The elements of a ConceptMap with the code and equivalence of every
\* target, leaving displays and comments aside.
ElementsOf(cm) ==
    [i \in 1..Len(cm.element) |->
        [code |-> cm.element[i].code,
         target |-> [k \in 1..Len(cm.element[i].target) |->
                        [code |-> cm.element[i].target[k].code,
                         equivalence |-> cm.element[i].target[k].equivalence]]]]

\* C19: when the command-line run with the static table has generated its
\* resources from the records the server's live, published table was
\* ingested from, the two CodeSystems have the same concept list and the two
\* ConceptMaps the same elements with the same targets.
C19_CliAndIngestArtifactsAgree ==
    ( /\ last.op = "generate" /\ last.status = "ok"
      /\ namaste_codesystem = codesystem_of(df_namaste, TERMINOLOGY_VERSION)
      /\ concept_map = conceptmap_of(df_namaste, TERMINOLOGY_VERSION)
      /\ RecordsOf(namaste_data) = RecordsOf(df_namaste.rows) )
        => /\ last.codesystem.concept = namaste_codesystem.concept
           /\ ElementsOf(last.conceptmap) = ElementsOf(concept_map)


(***************************************************************************)
(* The NAMASTE -> TM2 lookup, row by row.                                  *)
(***************************************************************************)
\* The latest request is a NAMASTE -> TM2 translation on a table that holds
\* rows and both columns the lookup reads.
Tm2LookupOnLoadedTable ==
    /\ last.op = "translate" /\ LastPair = <<"NAMASTE", "TM2">>
    /\ ~is_empty(df_namaste)
    /\ {"Code", "icd11_tm2_code"} \subseteq df_namaste.cols

\* The rows of the table, in table order, whose Code is the requested code
\* and whose TM2 code is not "UNKNOWN".
Tm2RowsFor(code) ==
    SelectSeq(df_namaste.rows,
              LAMBDA r : r.Code = code /\ r.icd11_tm2_code # UNKNOWN)

\* C20: on a loaded table the matches of a NAMASTE -> TM2 translation are, in
\* table order, the TM2 codes of the rows whose Code is the requested code
\* and whose TM2 code is not "UNKNOWN", each with equivalence "equivalent";
\* the list is empty (no translation found) when the code is absent from the
\* table and when it is present but unmapped.
C20_Tm2MatchesAreTheMappedRows ==
    Tm2LookupOnLoadedTable =>
        /\ Len(last.match) = Len(Tm2RowsFor(last.code))
        /\ \A k \in 1..Len(last.match) :
              /\ last.match[k].concept.code = Tm2RowsFor(last.code)[k].icd11_tm2_code
              /\ last.match[k].equivalence = "equivalent"
        /\ (Tm2RowsFor(last.code) = <<>>) <=> (last.status = "not_found")
        /\ (Tm2RowsFor(last.code) # <<>>) <=> (last.status = "ok")

\* C20 witness: a table with two rows of the requested code answered with
\* two matches.
C20_TwoRowsTwoMatchesReached ==
    /\ Tm2LookupOnLoadedTable
    /\ Len(df_namaste.rows) = 2
    /\ \A i \in 1..2 : df_namaste.rows[i].Code = last.code
    /\ Len(last.match) = 2

\* A code that is present in the table but unmapped was answered with an
\* empty list.
C20_UnmappedCodeReached ==
    /\ Tm2LookupOnLoadedTable
    /\ \E i \in 1..Len(df_namaste.rows) : df_namaste.rows[i].Code = last.code
    /\ last.match = <<>> /\ last.status = "not_found"


(***************************************************************************)
(* The search contract, phase by phase.                                    *)
(***************************************************************************)
\* The exact entries of the latest search.
LastExact == get_exact_matches(df_namaste, LastQuery)

\* The result of the latest search, had its fuzzy phase taken the top
\* `width` distinct searchable texts.
ResultWithFuzzyWidth(width) ==
    py_prefix(dedupe_by_code(LastExact
                             \o get_fuzzy_matches(df_namaste, LastQuery,
                                                  width, last.threshold)),
              last.limit)

\* C21: when the exact matches number fewer than limit, the result is the one
\* a fuzzy phase gives that takes the top 2 x (limit - exact matches)
\* distinct searchable texts by score and then drops those below threshold.
C21_FuzzyPhaseTakesTwiceTheRemainder ==
    (SearchedLoadedTable /\ Len(LastExact) < last.limit) =>
        last.results = ResultWithFuzzyWidth(2 * (last.limit - Len(LastExact)))

\* What the code does: the fuzzy phase takes the top (limit - exact matches)
\* distinct searchable texts.
FuzzyPhaseTakesTheRemainder ==
    (SearchedLoadedTable /\ Len(LastExact) < last.limit) =>
        last.results = ResultWithFuzzyWidth(last.limit - Len(LastExact))


(***************************************************************************)
(* The order of a search result, on tables of up to MaxOrderRows rows that *)
(* may hold two records whose searchable text is the same: "AA" and "aa"   *)
(* with the same display name and definition.                              *)
(***************************************************************************)
RowVataLower == CsvRow(<<"a","a">>, <<"V","a","t","a">>, <<"n","e","r","v","e">>)
OrderFiles ==
    {[readable |-> TRUE, cols |-> CsvColumns, rows |-> t] :
        t \in SeqsUpTo({RowVata, RowVati, RowVataLower}, MaxOrderRows)}
OrderQueries == { <<"v","a","t","x">>, <<"V","a","t","a"," ">>, <<"p","i","l","l">> }
OrderLimits == {1, MaxOrderRows}

NextOrdering ==
    \/ \E f \in OrderFiles, ts \in Timestamps : ingest_namaste(f, ts)
    \/ \E q \in OrderQueries, l \in OrderLimits, th \in Thresholds :
          custom_search(q, l, th)
    \/ \E q \in OrderQueries, l \in OrderLimits : valueset_expand(q, l)

SpecOrdering == Init /\ [][NextOrdering]_vars

\* Entry e shows the code, display name and definition of row i.
BuiltFrom(e, i) ==
    /\ df_namaste.rows[i].Code = e.namaste_code
    /\ df_namaste.rows[i].Disease = e.display_name
    /\ df_namaste.rows[i].Short_Definition = e.definition

\* The entries es are in table order: they can be read off rows of the
\* table at strictly increasing positions.
InTableOrder(es) ==
    \E g \in [1..Len(es) -> 1..Len(df_namaste.rows)] :
        /\ \A k \in 1..Len(es) : BuiltFrom(es[k], g[k])
        /\ \A k, l \in 1..Len(es) : k < l => g[k] < g[l]

IsExactEntry(e) == e.match_type = "exact"
IsFuzzyEntry(e) == e.match_type = "fuzzy"
FuzzyScores ==
    {last.results[p].confidence_score :
        p \in {r \in 1..Len(last.results) : IsFuzzyEntry(last.results[r])}}

\* Exact entries precede fuzzy entries, exact entries are in table order and
\* fuzzy entries are in non-increasing score order.
ExactThenFuzzyByScore ==
    SearchedLoadedTable =>
        /\ \A p, q \in 1..Len(last.results) :
              p < q =>
                /\ IsFuzzyEntry(last.results[p]) => IsFuzzyEntry(last.results[q])
                /\ (IsFuzzyEntry(last.results[p]) /\ IsFuzzyEntry(last.results[q]))
                      => last.results[p].confidence_score
                            >= last.results[q].confidence_score
        /\ InTableOrder(SelectSeq(last.results, IsExactEntry))

\* C22: in every search result all exact entries precede all fuzzy entries,
\* exact entries are in table order, fuzzy entries are in non-increasing
\* score order, and fuzzy entries with equal score are in table order.
C22_ExactThenFuzzyTiesInTableOrder ==
    /\ ExactThenFuzzyByScore
    /\ SearchedLoadedTable =>
          \A score \in FuzzyScores :
              InTableOrder(SelectSeq(last.results,
                              LAMBDA e : IsFuzzyEntry(e) /\ e.confidence_score = score))


\* Every exact entry has score 100 and every fuzzy entry a score of at least
\* the threshold and at most `top`.
ScoresWithin(top) ==
    last.op = "search" =>
        \A p \in 1..Len(last.results) :
            /\ IsExactEntry(last.results[p]) => last.results[p].confidence_score = 100
            /\ IsFuzzyEntry(last.results[p]) =>
                  /\ last.threshold <= last.results[p].confidence_score
                  /\ last.results[p].confidence_score <= top

\* C23: in every search result every exact entry has confidence_score 100
\* and every fuzzy entry has a confidence_score s with threshold <= s <= 99.
C23_FuzzyScoreBelowHundred == ScoresWithin(99)

\* What the code keeps: a fuzzy score is between the threshold and 100.
FuzzyScoreAtMostHundred == ScoresWithin(100)


\* The fuzzy phase of the latest search ran and returned an entry for row i.
FuzzyMatchedRow(i) ==
    /\ NumExact < last.limit
    /\ \E e \in {get_fuzzy_matches(df_namaste, LastQuery,
                                    last.limit - NumExact, last.threshold)} :
          \E k \in 1..Len(e) : BuiltFrom(e[k], i)

\* The positions of the latest result that carry the Code of row i.
PositionsOf(i) ==
    {p \in 1..Len(last.results) :
        last.results[p].namaste_code = df_namaste.rows[i].Code}

\* A record matched by the exact phase and by the fuzzy phase is in the
\* result once, as an exact entry with score 100.
MatchedTwiceAppearsOnceAsExact ==
    SearchedLoadedTable =>
        \A i \in 1..Len(df_namaste.rows) :
            (IsExactRow(i) /\ FuzzyMatchedRow(i)) =>
                /\ Cardinality(PositionsOf(i)) = 1
                /\ \A p \in PositionsOf(i) :
                      /\ last.results[p].match_type = "exact"
                      /\ last.results[p].confidence_score = 100

\* The latest search asked a one-record table for a substring of the
\* record's display name.
OneRecordSubstringSearch ==
    /\ SearchedLoadedTable
    /\ Len(df_namaste.rows) = 1
    /\ contains(lower(df_namaste.rows[1].Disease), LastQuery)

OneExactResult ==
    Len(last.results) = 1 /\ last.results[1].match_type = "exact"

\* C24 as stated: a record matched by both phases of one search appears
\* exactly once, as its exact entry, and a one-record table queried with a
\* substring of its display name yields exactly one result, of type exact.
C24_OneRecordAlwaysOneExactResult ==
    /\ MatchedTwiceAppearsOnceAsExact
    /\ OneRecordSubstringSearch => OneExactResult

\* C24 amended: a record matched by both phases of one search appears
\* exactly once, as its exact entry, and a one-record table queried with a
\* substring of its display name and a limit of at least 1 yields exactly
\* one result, of type exact.
C24_OneExactResultForPositiveLimit ==
    /\ MatchedTwiceAppearsOnceAsExact
    /\ (OneRecordSubstringSearch /\ last.limit >= 1) => OneExactResult

\* C24 witness: on a table of two different records, a search returned one
\* record that both phases matched as its exact entry, and a fuzzy entry
\* after it.
C24_MatchedTwiceReached ==
    /\ SearchedLoadedTable
    /\ \E i \in 1..Len(df_namaste.rows) : IsExactRow(i) /\ FuzzyMatchedRow(i)
    /\ \E f \in 1..Len(last.results) : last.results[f].match_type = "fuzzy"


(***************************************************************************)
(* The candidate lists of get_enhanced_namaste_mappings.                   *)
(***************************************************************************)
\* The codes of a sequence of candidates, and the distinct ones among them
\* in order of first appearance.
CodesOf(candidates) == [k \in 1..Len(candidates) |-> candidates[k].code]
FirstSeenCodes(candidates) == unique(CodesOf(candidates))

\* The display a code has where it first appears among the candidates.
FirstDisplay(candidates, code) ==
    candidates[CHOOSE k \in 1..Len(candidates) :
                  /\ candidates[k].code = code
                  /\ \A j \in 1..(k - 1) : candidates[j].code # code].display

\* kept is a list of at most 2 candidates with distinct codes that begins
\* with the codes of seen (the candidates collected before the last search
\* of a code) in the order they first appeared.
BoundedDistinctInOrder(kept, seen) ==
    /\ Len(kept) <= 2
    /\ \A k, l \in 1..Len(kept) : kept[k].code = kept[l].code => k = l
    /\ \A k \in 1..2 :
          k <= Len(FirstSeenCodes(seen)) =>
              k <= Len(kept) /\ kept[k].code = FirstSeenCodes(seen)[k]

\* Every kept candidate whose code was seen before the last search has the
\* display of the code's first appearance.
KeepsFirstDisplay(kept, seen) ==
    \A k \in 1..Len(kept) :
        (\E j \in 1..Len(seen) : seen[j].code = kept[k].code)
            => kept[k].display = FirstDisplay(seen, kept[k].code)

\* The codes whose lists this step of the enrichment builds.
CodesFinished == DOMAIN enrich'.mappings \ DOMAIN enrich.mappings

\* The TM2 list and the Biomedicine list of a code hold at most 2 candidates
\* with pairwise distinct codes, in order of first appearance.
CandidateListsBoundedDistinctInOrder ==
    [][ \A code \in CodesFinished :
           /\ BoundedDistinctInOrder(enrich'.mappings[code].tm2_codes, enrich.lists.tm2)
           /\ BoundedDistinctInOrder(enrich'.mappings[code].biomed_codes,
                                     enrich.lists.biomed) ]_vars

\* C25: for every code and every sequence of adapter responses, the TM2 list
\* and the Biomedicine list built for the code each hold at most 2
\* candidates with pairwise distinct codes, in order of first appearance
\* across the curated terms, each with the display of its first appearance.
C25_CandidatesKeepFirstDisplay ==
    [][ \A code \in CodesFinished :
           /\ BoundedDistinctInOrder(enrich'.mappings[code].tm2_codes, enrich.lists.tm2)
           /\ BoundedDistinctInOrder(enrich'.mappings[code].biomed_codes,
                                     enrich.lists.biomed)
           /\ KeepsFirstDisplay(enrich'.mappings[code].tm2_codes, enrich.lists.tm2)
           /\ KeepsFirstDisplay(enrich'.mappings[code].biomed_codes,
                                enrich.lists.biomed) ]_vars


(***************************************************************************)
(* Ingest and the published resources.                                     *)
(***************************************************************************)
\* C26: an ingest that reports an error leaves the live table, the
\* terminology version and the published CodeSystem and ConceptMap exactly
\* as they were before the call.
C26_FailedIngestChangesNothing ==
    [][ (last'.op = "ingest" /\ last'.status = "error")
            => UNCHANGED <<df_namaste, TERMINOLOGY_VERSION,
                           namaste_codesystem, concept_map>> ]_vars

\* What the code keeps: an ingest that reports an error leaves the published
\* CodeSystem and ConceptMap as they were.
FailedIngestKeepsResources ==
    [][ (last'.op = "ingest" /\ last'.status = "error")
            => UNCHANGED <<namaste_codesystem, concept_map>> ]_vars


\* The Codes of the live table, row by row.
LiveCodes == [i \in 1..Len(df_namaste.rows) |-> df_namaste.rows[i].Code]

\* C27: once the resources are published, in every state a reader can
\* observe the CodeSystem and the ConceptMap carry the version
\* TERMINOLOGY_VERSION and their codes are exactly the Codes of the rows of
\* the live table.
C27_ResourcesDescribeLiveTable ==
    (namaste_codesystem.defined /\ concept_map.defined) =>
        /\ namaste_codesystem.version = TERMINOLOGY_VERSION
        /\ concept_map.version = TERMINOLOGY_VERSION
        /\ [i \in 1..Len(namaste_codesystem.concept) |->
               namaste_codesystem.concept[i].code] = LiveCodes
        /\ [i \in 1..Len(concept_map.element) |->
               concept_map.element[i].code] = LiveCodes

\* What the code keeps: the two resources are published together, with one
\* version and the same codes.
ResourcesDescribeOneTable ==
    /\ namaste_codesystem.defined <=> concept_map.defined
    /\ namaste_codesystem.defined =>
          /\ namaste_codesystem.version = concept_map.version
          /\ [i \in 1..Len(namaste_codesystem.concept) |->
                 namaste_codesystem.concept[i].code]
               = [i \in 1..Len(concept_map.element) |-> concept_map.element[i].code]


(***************************************************************************)
(* Translation there and back.                                             *)
(***************************************************************************)
\* The concept codes of a translation response.
MatchCodes(response) ==
    {response.match[k].concept.code : k \in 1..Len(response.match)}

\* C28: on a loaded table, every code t that a NAMASTE -> TM2 translation of
\* a code c returns is translated back: TM2 -> NAMASTE of t returns a match
\* with code c.
C28_Tm2MatchTranslatesBack ==
    Tm2LookupOnLoadedTable =>
        \A t \in MatchCodes(last) :
            last.code \in MatchCodes(translate_code(df_namaste, t, "TM2", "NAMASTE"))

\* C28 witness: a TM2 -> NAMASTE translation returned a code whose own
\* NAMASTE -> TM2 translation returns the code that was asked for.
C28_TranslatedBackReached ==
    /\ last.op = "translate" /\ LastPair = <<"TM2", "NAMASTE">>
    /\ last.status = "ok"
    /\ \E c \in MatchCodes(last) :
          last.code \in MatchCodes(translate_code(df_namaste, c, "NAMASTE", "TM2"))


\* C29: on every loaded table a TM2 -> NAMASTE translation of the code
\* "UNKNOWN" returns no match: the sentinel is never taken for a real code.
C29_UnknownSentinelNeverMatches ==
    ( /\ last.op = "translate" /\ LastPair = <<"TM2", "NAMASTE">>
      /\ last.code = UNKNOWN /\ ~is_empty(df_namaste) )
        => last.match = <<>>


(***************************************************************************)
(* The bearer credential.                                                  *)
(***************************************************************************)
\* C30: whenever authenticate returns true the adapter holds a non-empty
\* access token and an expiry time, and no API request is sent with an empty
\* bearer credential, whatever the token endpoint answered.
C30_TrueMeansTokenHeld ==
    /\ (last.op = "authenticate" /\ last.ok) =>
          /\ icd11_client[1].access_token # NoToken
          /\ icd11_client[1].token_expires_at # NoTime
    /\ ( /\ last.op \in {"search_codes", "fetch_tm2_codes", "fetch_biomedicine_codes"}
         /\ last.api_requested ) =>
          icd11_client[1].access_token # NoToken

\* What the code keeps: after an authenticate that returned true the adapter
\* holds an expiry time.
TrueMeansExpiryHeld ==
    (last.op = "authenticate" /\ last.ok) => icd11_client[1].token_expires_at # NoTime

====
